---- MODULE Spec2Model ----
(***************************************************************************)
(* Sequence / ledger consistency core of the vehicle sales system:         *)
(* branch counters under the branch row lock, accessory bill splitting and *)
(* numbering, direct order finalization, and the approval-gated            *)
(* finalization (submit -> owner decision -> resume and finalize).         *)
(*                                                                         *)
(* Every terminal runs one Streamlit script run at a time; a script run is *)
(* cut into steps at the points where it touches the database (lock,       *)
(* commit, rollback).  The database is MySQL/InnoDB as configured in       *)
(* core/database.py: SELECT ... FOR UPDATE holds the branch row until the  *)
(* session commits, rolls back or closes.                                  *)
(* All money is in paise (1/100 rupee), so 1500.01 is 150001.              *)
(***************************************************************************)
EXTENDS Integers, Sequences, FiniteSets, TLC

(* ---------------- bounds ---------------- *)
MaxSales == 2
MaxFailures == 1
MaxItems == 3
MaxCashierTxns == 2

(* ---------------- program constants ---------------- *)
APPROVAL_LIMIT == 150000
GST_RATE_CALC == 0
HP_FEE_DEFAULT == 200000
HP_FEE_BANK_QUOTATION == 50000

Terminals == {"t1", "t2"}
Owners == {"o1", "o2"}
Branches == {"BR1", "BR2"}
SaleIds == 1..MaxSales
Cashiers == {"c1", "c2"}
NoProc == "none"

VARIABLES
    branches,               \* table branches: Branch_ID -> counters and firm slots
    row_lock,               \* InnoDB row lock on each branch row: holder or NoProc
    sales_records,          \* table sales_records, id = position
    inventory_transactions, \* table inventory_transactions, id = position
    approval_requests,      \* table approval_requests, id = position
    cashier_log,            \* table cashier_log, id = position
    term,                   \* per terminal: position in the running script and its locals
    owner,                  \* per open owner dashboard: 0, or the request whose button was pressed
    sale_status,            \* per sale form: what the terminal last reported to its user
    failures,               \* number of injected failures so far
    cashier,                \* per cashier daybook session: position in add_transaction
    calc,                   \* a call of one of the pure functions: arguments and result
    firm_master,            \* table firm_master: Firm_ID -> Invoice_Prefix
    accessory_packages,     \* table accessory_packages: Model -> accessory ids
    pdf_challans            \* the challans handed out: DC number and accessory bills

vars == <<branches, row_lock, sales_records, inventory_transactions,
          approval_requests, cashier_log, term, owner, sale_status, failures,
          cashier, calc, firm_master, accessory_packages, pdf_challans>>

(* ---------------- reference data (read-only to the core) ---------------- *)

\* firm_master rows as set up: Firm_ID -> Invoice_Prefix
FirmMaster == [f \in {1, 2} |-> IF f = 1 THEN "KM" ELSE "KA"]

\* accessory_master rows: id -> Item_Name, price
AccessoryMaster ==
    [a \in {"GUARD", "MAT", "FREEBIE", "COVER"} |->
        CASE a = "GUARD"   -> [Item_Name |-> "Guard Kit",  price |-> 90000]
          [] a = "MAT"     -> [Item_Name |-> "Floor Mat",  price |-> 30000]
          [] a = "FREEBIE" -> [Item_Name |-> "Key Chain",  price |-> 0]
          [] a = "COVER"   -> [Item_Name |-> "Body Cover", price |-> 45000]]

\* accessory_packages rows as set up: Model -> Acc_Master_ID_1 .. Acc_Master_ID_10
\* ("" is NULL)
AccessoryPackages ==
    [m \in {"ACTIVA", "DIO"} |->
        IF m = "ACTIVA"
        THEN <<"GUARD", "MAT", "", "FREEBIE", "COVER", "", "", "", "", "">>
        ELSE <<"GUARD", "", "", "", "", "", "", "", "", "">>]

\* the sale forms the terminals fill in; a retry of a sale re-submits the same form
SaleBranch(s) == IF s % 3 = 0 THEN "BR2" ELSE "BR1"
SaleModel(s) == IF s % 3 = 0 THEN "DIO" ELSE "ACTIVA"
SaleListedPrice(s) == 80000 * 100
SaleFinalCost(s) ==
    CASE s % 3 = 1 -> SaleListedPrice(s) - APPROVAL_LIMIT
      [] s % 3 = 2 -> SaleListedPrice(s) - (APPROVAL_LIMIT + 1)
      [] OTHER     -> SaleListedPrice(s)
SaleLinksReceipts(s) == s % 3 = 1

(* ---------------- pure functions ---------------- *)

Digit(d) == <<"0", "1", "2", "3", "4", "5", "6", "7", "8", "9">>[d + 1]

RECURSIVE Decimal(_)
Decimal(n) == IF n < 10 THEN Digit(n) ELSE Decimal(n \div 10) \o Digit(n % 10)

\* f"{n:04d}"
ZeroPad4(n) ==
    CASE n < 10   -> "000" \o Decimal(n)
      [] n < 100  -> "00" \o Decimal(n)
      [] n < 1000 -> "0" \o Decimal(n)
      [] OTHER    -> Decimal(n)

\* f"DC-{next_number:04d}"
FormatDC(n) == "DC-" \o ZeroPad4(n)

\* variant: the next number skips one
NextDcSeq_Skip(branch) == branch.DC_Last_Number + 2

\* get_next_dc_number, the value computed from the locked row
NextDcSeq(branch) == branch.DC_Last_Number + 1

\* get_accessory_package_for_model
RECURSIVE PackageItems(_, _)
PackageItems(package, i) ==
    IF i > 10 THEN <<>>
    ELSE LET acc_id == package[i]
         IN  IF acc_id # "" /\ acc_id \in DOMAIN AccessoryMaster
             THEN <<[name |-> AccessoryMaster[acc_id].Item_Name,
                     price |-> AccessoryMaster[acc_id].price,
                     firm_slot |-> IF i <= 4 THEN 1 ELSE 2]>>
                  \o PackageItems(package, i + 1)
             ELSE PackageItems(package, i + 1)

get_accessory_package_for_model(packages, model_name) ==
    IF model_name \in DOMAIN packages
    THEN PackageItems(packages[model_name], 1)
    ELSE <<>>

\* variant: an item priced zero is billed too
RECURSIVE SlotItems_KeepsFree(_, _, _)
SlotItems_KeepsFree(accessory_list, slot, firm_id) ==
    IF accessory_list = <<>> THEN <<>>
    ELSE LET item == Head(accessory_list)
             rest == SlotItems_KeepsFree(Tail(accessory_list), slot, firm_id)
         IN  IF item.price >= 0 /\ item.firm_slot = slot /\ firm_id # 0
             THEN <<[name |-> item.name, qty |-> 1,
                     price |-> item.price, total |-> item.price]>> \o rest
             ELSE rest

\* the items process_accessories_and_split puts on the bill of one slot
RECURSIVE SlotItems(_, _, _)
SlotItems(accessory_list, slot, firm_id) ==
    IF accessory_list = <<>> THEN <<>>
    ELSE LET item == Head(accessory_list)
             rest == SlotItems(Tail(accessory_list), slot, firm_id)
         IN  IF item.price > 0 /\ item.firm_slot = slot /\ firm_id # 0
             THEN <<[name |-> item.name, qty |-> 1,
                     price |-> item.price, total |-> item.price]>> \o rest
             ELSE rest

RECURSIVE SumPrice(_)
SumPrice(items) == IF items = <<>> THEN 0 ELSE Head(items).price + SumPrice(Tail(items))

\* variant: the bill is emitted without looking the firm up in firm_master
SlotBill_NoFirmLookup(accessory_list, slot, firm_id, firm_master_df) ==
    LET items == SlotItems(accessory_list, slot, firm_id)
        subtotal == SumPrice(items)
        grand_total == subtotal + subtotal * GST_RATE_CALC
    IN  IF grand_total > 0 /\ firm_id # 0
        THEN <<[firm_id |-> firm_id, accessory_slot |-> slot, accessories |-> items,
                subtotal |-> subtotal, grand_total |-> grand_total]>>
        ELSE <<>>

\* the bill of one slot, or none: the tail of process_accessories_and_split
SlotBill(accessory_list, slot, firm_id, firm_master_df) ==
    LET items == SlotItems(accessory_list, slot, firm_id)
        subtotal == SumPrice(items)
        grand_total == subtotal + subtotal * GST_RATE_CALC
    IN  IF grand_total > 0 /\ firm_id # 0 /\ firm_id \in DOMAIN firm_master_df
        THEN <<[firm_id |-> firm_id, accessory_slot |-> slot, accessories |-> items,
                subtotal |-> subtotal, grand_total |-> grand_total]>>
        ELSE <<>>

\* process_accessories_and_split; a NULL firm id is 0
process_accessories_and_split(accessory_list, firm_master_df, branch) ==
    SlotBill(accessory_list, 1, branch.Firm_ID_1, firm_master_df)
        \o SlotBill(accessory_list, 2, branch.Firm_ID_2, firm_master_df)

\* variant: the slot floor is not applied
generate_accessory_invoice_number_NoFloor(firms, branch, firm_id, accessory_slot) ==
    IF firm_id \notin DOMAIN firms THEN <<"ERR-FIRM" \o Decimal(firm_id), 0>>
    ELSE IF accessory_slot \notin {1, 2} THEN <<"ERR-SLOT", 0>>
    ELSE LET last_used == IF accessory_slot = 1 THEN branch.Acc_Inv_1_Last_Number
                          ELSE branch.Acc_Inv_2_Last_Number
         IN  <<firms[firm_id] \o "-" \o Decimal(last_used + 1), last_used + 1>>

\* generate_accessory_invoice_number: <<invoice string, sequence>>
generate_accessory_invoice_number(firms, branch, firm_id, accessory_slot) ==
    IF firm_id \notin DOMAIN firms THEN <<"ERR-FIRM" \o Decimal(firm_id), 0>>
    ELSE IF accessory_slot \notin {1, 2} THEN <<"ERR-SLOT", 0>>
    ELSE LET stored == IF accessory_slot = 1 THEN branch.Acc_Inv_1_Last_Number
                       ELSE branch.Acc_Inv_2_Last_Number
             start_seq == IF accessory_slot = 1 THEN 1000 ELSE 2000
             last_used == IF stored < start_seq THEN start_seq - 1 ELSE stored
         IN  <<firms[firm_id] \o "-" \o Decimal(last_used + 1), last_used + 1>>

\* the sequence the numbering loop of SalesForm leaves in bill_1_seq / bill_2_seq
BillSeq(bills, firms, branch, slot) ==
    LET hit == {i \in DOMAIN bills : bills[i].accessory_slot = slot}
    IN  IF hit = {} THEN 0
        ELSE LET i == CHOOSE j \in hit : TRUE
             IN  generate_accessory_invoice_number(firms, branch, bills[i].firm_id, slot)[2]

\* the numbering loop of SalesForm: bill['Invoice_No'], bill['Acc_Inv_Seq']
NumberedBills(bills, firms, branch) ==
    [i \in DOMAIN bills |->
        LET inv == generate_accessory_invoice_number(
                       firms, branch, bills[i].firm_id, bills[i].accessory_slot)
        IN  bills[i] @@ [Invoice_No |-> inv[1], Acc_Inv_Seq |-> inv[2]]]

\* [b for b in acc_bills_data if b['grand_total'] > 0]
RetainedBills(bills) == SelectSeq(bills, LAMBDA b : b.grand_total > 0)

\* variant: the reprint numbers the bills from the branch's current counters
reconstruct_sales_order_Renumbers(record, branch_table, packages, firms) ==
    LET branch == branch_table[record.Branch_ID]
        acc_list == get_accessory_package_for_model(packages, record.Model)
        acc_bills_data == process_accessories_and_split(acc_list, firms, branch)
    IN  [dc_number |-> record.DC_Number,
         accessory_bills |-> RetainedBills(NumberedBills(acc_bills_data, firms, branch))]

\* reconstruct_sales_order: the DC number and the accessory bills of the order it
\* builds from a stored record and the tables as they are now
reconstruct_sales_order(record, branch_table, packages, firms) ==
    LET branch == branch_table[record.Branch_ID]
        acc_list == get_accessory_package_for_model(packages, record.Model)
        acc_bills_data == process_accessories_and_split(acc_list, firms, branch)
        numbered ==
            [i \in DOMAIN acc_bills_data |->
                LET bill == acc_bills_data[i]
                    seq_no == IF bill.accessory_slot = 1
                              THEN record.Acc_Inv_1_No ELSE record.Acc_Inv_2_No
                    prefix == IF bill.firm_id \in DOMAIN firms
                              THEN firms[bill.firm_id] ELSE "ERR"
                IN  bill @@ [Invoice_No |-> prefix \o "-" \o Decimal(seq_no),
                             Acc_Inv_Seq |-> seq_no]]
    IN  [dc_number |-> record.DC_Number, accessory_bills |-> RetainedBills(numbered)]

\* variant: the Bank quotation fee is tested before the out-finance flag
calculate_finance_fees_BankFirst(financier_name, dd_amount, out_finance_flag, incentive_rules) ==
    IF financier_name = "Bank" THEN <<HP_FEE_BANK_QUOTATION, 0>>
    ELSE IF out_finance_flag THEN <<HP_FEE_DEFAULT, 0>>
    ELSE IF financier_name \in DOMAIN incentive_rules
    THEN LET rule == incentive_rules[financier_name]
         IN  CASE rule.type = "percentage_dd" -> <<HP_FEE_DEFAULT, dd_amount * rule.value>>
               [] rule.type = "fixed_file"    -> <<HP_FEE_DEFAULT, rule.value>>
               [] OTHER                       -> <<HP_FEE_DEFAULT, 0>>
    ELSE <<HP_FEE_DEFAULT, 0>>

\* calculate_finance_fees: <<hp_fee_to_charge, incentive_earned>>
calculate_finance_fees(financier_name, dd_amount, out_finance_flag, incentive_rules) ==
    IF out_finance_flag THEN <<HP_FEE_DEFAULT, 0>>
    ELSE IF financier_name = "Bank" THEN <<HP_FEE_BANK_QUOTATION, 0>>
    ELSE IF financier_name \in DOMAIN incentive_rules
    THEN LET rule == incentive_rules[financier_name]
         IN  CASE rule.type = "percentage_dd" -> <<HP_FEE_DEFAULT, dd_amount * rule.value>>
               [] rule.type = "fixed_file"    -> <<HP_FEE_DEFAULT, rule.value>>
               [] OTHER                       -> <<HP_FEE_DEFAULT, 0>>
    ELSE <<HP_FEE_DEFAULT, 0>>

\* SalesForm: down_payment = max(0.0, total_obligation - dd_amount)
RequiredDownPayment(final_cost, hp_fee, incentive_earned, dd_amount) ==
    LET total_obligation == final_cost + hp_fee + incentive_earned
    IN  IF total_obligation - dd_amount > 0 THEN total_obligation - dd_amount ELSE 0

\* SalesOrder.set_finance_details: the remaining_finance_amount it stores
set_finance_details(final_cost, hp_fee, incentive_earned, dd_amount, down_payment) ==
    LET total_customer_cost == final_cost + hp_fee + incentive_earned
    IN  total_customer_cost - dd_amount - down_payment

\* variant: the comparison is not strict
requires_approval_AtLeast(discount) == discount >= APPROVAL_LIMIT

\* requires_approval = discount > APPROVAL_LIMIT
requires_approval(discount) == discount > APPROVAL_LIMIT

SaleDiscount(s) == SaleListedPrice(s) - SaleFinalCost(s)

\* dd_amount of the sales form: the DD / booking amount expected from the financier
\* of a financed sale, zero for a cash sale
SaleDD(s) == IF s % 3 = 1 THEN 30000 * 100 ELSE 0

\* variant: the DC counter is not written back
update_branch_sequences_KeepDc(branch, new_dc_seq, new_acc1_seq, new_acc2_seq) ==
    [branch EXCEPT
        !.Acc_Inv_1_Last_Number = IF new_acc1_seq > 0 THEN new_acc1_seq ELSE @,
        !.Acc_Inv_2_Last_Number = IF new_acc2_seq > 0 THEN new_acc2_seq ELSE @]

\* update_branch_sequences: the row as written inside the open transaction
update_branch_sequences(branch, new_dc_seq, new_acc1_seq, new_acc2_seq) ==
    [branch EXCEPT
        !.DC_Last_Number = new_dc_seq,
        !.Acc_Inv_1_Last_Number = IF new_acc1_seq > 0 THEN new_acc1_seq ELSE @,
        !.Acc_Inv_2_Last_Number = IF new_acc2_seq > 0 THEN new_acc2_seq ELSE @]

\* UniqueConstraint('Branch_ID', 'DC_Number') of sales_records
uq_branch_dc_number(records, rec) ==
    \A i \in DOMAIN records :
        ~(records[i].Branch_ID = rec.Branch_ID /\ records[i].DC_Number = rec.DC_Number)

\* variant: the locking read locks the whole branches table
LockAvailable_TableLock(b, p) == \A x \in DOMAIN row_lock : row_lock[x] \in {NoProc, p}

\* variant: a plain read that never waits
LockAvailable_NoWait(b, p) == TRUE

\* with_for_update(): the locking read waits while another session holds the row
LockAvailable(b, p) == row_lock[b] = NoProc \/ row_lock[b] = p

\* variant: the counter writes survive the rollback
RolledBackBranch_KeepsPending(branch, pending) == pending

\* db.rollback() / db.close(): the branch row the database keeps when the open
\* transaction of a finalization is abandoned
RolledBackBranch(branch, pending) == branch

(* ---------------- state ---------------- *)

IdleTerm == [pc |-> "idle", path |-> "none", sale |-> 0, req |-> 0,
             dc_seq |-> 0, bill_1_seq |-> 0, bill_2_seq |-> 0, receipt_ids |-> {},
             accessory_bills |-> <<>>]

\* a cashier session with no add_transaction in progress
IdleCashier == [pc |-> "idle", branch_id |-> "", transaction_type |-> "", category |-> "",
                next_num |-> 0, is_expense |-> FALSE, date |-> 0, transaction_ids |-> {}]

\* no call of a pure function
NoCall == [op |-> "none"]

InitBranches ==
    [b \in Branches |->
        IF b = "BR1"
        THEN [DC_Last_Number |-> 5, Acc_Inv_1_Last_Number |-> 0,
              Acc_Inv_2_Last_Number |-> 0, Receipt_Last_Number |-> 1,
              Voucher_Last_Number |-> 0, Branch_Receipt_Last_Number |-> 0,
              Job_Card_Last_Number |-> 0, Out_Bill_Last_Number |-> 0,
              Firm_ID_1 |-> 1, Firm_ID_2 |-> 2]
        ELSE [DC_Last_Number |-> 5, Acc_Inv_1_Last_Number |-> 1003,
              Acc_Inv_2_Last_Number |-> 0, Receipt_Last_Number |-> 0,
              Voucher_Last_Number |-> 0, Branch_Receipt_Last_Number |-> 0,
              Job_Card_Last_Number |-> 0, Out_Bill_Last_Number |-> 0,
              Firm_ID_1 |-> 1, Firm_ID_2 |-> 0]]

\* one booking receipt taken earlier at BR1 and not yet linked to a DC
InitCashierLog ==
    <<[branch_id |-> "BR1", transaction_type |-> "Receipt", category |-> "Booking Receipt",
       amount |-> 500000, dc_number |-> "", receipt_number |-> 1, voucher_number |-> 0,
       is_expense |-> FALSE, date |-> 1, imported_from_id |-> 0]>>

\* the database and the sales terminals before any operation
InitTables ==
    /\ branches = InitBranches
    /\ row_lock = [b \in Branches |-> NoProc]
    /\ sales_records = <<>>
    /\ inventory_transactions = <<>>
    /\ approval_requests = <<>>
    /\ cashier_log = InitCashierLog
    /\ firm_master = FirmMaster
    /\ accessory_packages = AccessoryPackages
    /\ pdf_challans = <<>>
    /\ term = [t \in Terminals |-> IdleTerm]
    /\ sale_status = [s \in SaleIds |-> "draft"]
    /\ failures = 0
    /\ cashier = [c \in Cashiers |-> IdleCashier]

\* one owner dashboard session is open
Init ==
    /\ InitTables
    /\ owner = [o \in {"o1"} |-> 0]
    /\ calc = NoCall

\* the owner dashboard is open in two sessions at once
InitConcurrentOwners ==
    /\ InitTables
    /\ owner = [o \in Owners |-> 0]
    /\ calc = NoCall

TermBranch(t) ==
    IF term[t].path = "resume" THEN approval_requests[term[t].req].Branch_ID
    ELSE SaleBranch(term[t].sale)

\* get_unlinked_booking_receipts
get_unlinked_booking_receipts(branch_id) ==
    {i \in DOMAIN cashier_log :
        /\ cashier_log[i].branch_id = branch_id
        /\ cashier_log[i].category = "Booking Receipt"
        /\ cashier_log[i].transaction_type = "Receipt"
        /\ cashier_log[i].dc_number = ""}

RECURSIVE SumAmount(_)
SumAmount(ids) ==
    IF ids = {} THEN 0
    ELSE LET i == CHOOSE j \in ids : TRUE IN cashier_log[i].amount + SumAmount(ids \ {i})

\* SalesOrder.get_data_for_export, the fields the core uses
get_data_for_export(s, dc_number, acc_inv_1_no, acc_inv_2_no) ==
    [Branch_ID |-> SaleBranch(s), DC_Number |-> dc_number, Model |-> SaleModel(s),
     Price_Listed_Total |-> SaleListedPrice(s), Price_Negotiated_Final |-> SaleFinalCost(s),
     Discount_Given |-> SaleListedPrice(s) - SaleFinalCost(s),
     Acc_Inv_1_No |-> acc_inv_1_no, Acc_Inv_2_No |-> acc_inv_2_no,
     Payment_DD |-> SaleDD(s),
     Payment_DD_Received |-> 0, sale |-> s, request |-> 0]

Failed(t, status) ==
    /\ failures < MaxFailures
    /\ failures' = failures + 1
    /\ sale_status' = IF term[t].path = "direct"
                      THEN [sale_status EXCEPT ![term[t].sale] = status]
                      ELSE sale_status
    /\ term' = [term EXCEPT ![t] = IdleTerm]

(* ---------------- direct finalization: SalesForm, GENERATE button ---------------- *)

\* the click: the rerun recomputes requires_approval, opens the session
BeginDirect(t, s) ==
    /\ term[t].pc = "idle"
    /\ sale_status[s] \in {"draft", "timed_out", "rolled_back", "failed_late"}
    /\ \A u \in Terminals : ~(term[u].path = "direct" /\ term[u].sale = s)
    /\ ~requires_approval(SaleDiscount(s))
    /\ term' = [term EXCEPT ![t] =
                  [IdleTerm EXCEPT !.pc = "begun", !.path = "direct", !.sale = s,
                                   !.receipt_ids = IF SaleLinksReceipts(s)
                                                   THEN get_unlinked_booking_receipts(SaleBranch(s))
                                                   ELSE {}]]
    /\ UNCHANGED <<branches, row_lock, sales_records, inventory_transactions,
                   approval_requests, cashier_log, owner, sale_status, failures,
                   cashier, calc,
                   firm_master, accessory_packages, pdf_challans>>

\* the firm_master frame the split is given: the sales form passes the frame of
\* load_universal_data_cached (ttl 3600), which is the table as it was when the
\* cache was filled or as it is now; the resume path reads it in its own session
FirmFrames(t) ==
    IF term[t].path = "direct" THEN {FirmMaster, firm_master} ELSE {firm_master}

\* get_next_dc_number under the row lock, then the split and the numbering loop,
\* all read from the row object loaded by the locking read
GetNextDcNumber(t) ==
    /\ term[t].pc = "begun"
    /\ TermBranch(t) \in DOMAIN branches
    /\ \E firm_master_df \in FirmFrames(t) :
          LET b == TermBranch(t)
              s == IF term[t].path = "resume"
                   THEN approval_requests[term[t].req].Order_JSON.sale ELSE term[t].sale
          IN  /\ LockAvailable(b, t)
              /\ row_lock' = [row_lock EXCEPT ![b] = t]
              /\ \E acc_list \in
                        {get_accessory_package_for_model(accessory_packages, SaleModel(s))} :
                    \E bills \in
                        {process_accessories_and_split(acc_list, firm_master_df, branches[b])} :
                      term' = [term EXCEPT
                        ![t].pc = "locked",
                        ![t].dc_seq = NextDcSeq(branches[b]),
                        ![t].bill_1_seq = BillSeq(bills, firm_master, branches[b], 1),
                        ![t].bill_2_seq = BillSeq(bills, firm_master, branches[b], 2),
                        ![t].accessory_bills =
                            RetainedBills(NumberedBills(bills, firm_master, branches[b]))]
    /\ UNCHANGED <<branches, sales_records, inventory_transactions, approval_requests,
                   cashier_log, owner, sale_status, failures,
                   cashier, calc,
                   firm_master, accessory_packages, pdf_challans>>

\* the locking read gives up (lock wait timeout): the script reports failure
LockWaitTimeout(t) ==
    /\ term[t].pc = "begun"
    /\ ~LockAvailable(TermBranch(t), t)
    /\ Failed(t, "timed_out")
    /\ UNCHANGED <<branches, row_lock, sales_records, inventory_transactions,
                   approval_requests, cashier_log, owner,
                   cashier, calc,
                   firm_master, accessory_packages, pdf_challans>>

\* variant: the resume path inserts the payload as it was stored
PendingRecord_KeepsPlaceholder(t) ==
    IF term[t].path = "direct"
    THEN LET linked_total == SumAmount(term[t].receipt_ids)
             data == get_data_for_export(term[t].sale, FormatDC(term[t].dc_seq),
                                         term[t].bill_1_seq, term[t].bill_2_seq)
         IN  IF linked_total > 0
             THEN [data EXCEPT !.Payment_DD_Received = linked_total] ELSE data
    ELSE [approval_requests[term[t].req].Order_JSON EXCEPT !.request = term[t].req]

\* the record create_sales_record is about to insert
PendingRecord(t) ==
    IF term[t].path = "direct"
    THEN LET linked_total == SumAmount(term[t].receipt_ids)
             data == get_data_for_export(term[t].sale, FormatDC(term[t].dc_seq),
                                         term[t].bill_1_seq, term[t].bill_2_seq)
         IN  IF linked_total > 0
             THEN [data EXCEPT !.Payment_DD_Received = linked_total] ELSE data
    ELSE [approval_requests[term[t].req].Order_JSON EXCEPT
             !.DC_Number = FormatDC(term[t].dc_seq),
             !.Acc_Inv_1_No = term[t].bill_1_seq,
             !.Acc_Inv_2_No = term[t].bill_2_seq,
             !.request = term[t].req]

\* create_sales_record: insert + update_branch_sequences + commit
CreateSalesRecord(t) ==
    /\ term[t].pc = "locked"
    /\ uq_branch_dc_number(sales_records, PendingRecord(t))
    /\ LET b == TermBranch(t)
       IN  /\ sales_records' = Append(sales_records, PendingRecord(t))
           /\ branches' = [branches EXCEPT ![b] =
                  update_branch_sequences(@, term[t].dc_seq, term[t].bill_1_seq,
                                          term[t].bill_2_seq)]
           /\ row_lock' = [row_lock EXCEPT ![b] = IF @ = t THEN NoProc ELSE @]
    /\ term' = [term EXCEPT ![t].pc = "created"]
    /\ UNCHANGED <<inventory_transactions, approval_requests, cashier_log, owner,
                   sale_status, failures,
                   cashier, calc,
                   firm_master, accessory_packages, pdf_challans>>

\* variant: the session is left open when the finalization fails, so the row lock of
\* its transaction is never given back
CreateSalesRecordFails_SessionLeftOpen(t) ==
    /\ term[t].pc = "locked"
    /\ Failed(t, "rolled_back")
    /\ UNCHANGED <<branches, row_lock, sales_records, inventory_transactions,
                   approval_requests, cashier_log, owner,
                   cashier, calc,
                   firm_master, accessory_packages, pdf_challans>>

\* an exception between the locking read and the commit, or a failing commit:
\* db.rollback() in create_sales_record / db.close() in db_session
CreateSalesRecordFails(t) ==
    /\ term[t].pc = "locked"
    /\ LET b == TermBranch(t)
       IN  /\ branches' = [branches EXCEPT ![b] =
                  RolledBackBranch(@, update_branch_sequences(@, term[t].dc_seq,
                                       term[t].bill_1_seq, term[t].bill_2_seq))]
           /\ row_lock' = [row_lock EXCEPT ![b] = IF @ = t THEN NoProc ELSE @]
    /\ IF uq_branch_dc_number(sales_records, PendingRecord(t))
       THEN Failed(t, "rolled_back")
       ELSE /\ failures' = failures
            /\ sale_status' = IF term[t].path = "direct"
                              THEN [sale_status EXCEPT ![term[t].sale] = "rolled_back"]
                              ELSE sale_status
            /\ term' = [term EXCEPT ![t] = IdleTerm]
    /\ UNCHANGED <<sales_records, inventory_transactions, approval_requests,
                   cashier_log, owner,
                   cashier, calc,
                   firm_master, accessory_packages, pdf_challans>>

\* link_booking_receipts: bulk update + commit
LinkBookingReceipts(t) ==
    /\ term[t].pc = "created"
    /\ term[t].path = "direct"
    /\ term[t].receipt_ids # {}
    /\ cashier_log' = [i \in DOMAIN cashier_log |->
          IF i \in term[t].receipt_ids
          THEN [cashier_log[i] EXCEPT !.dc_number = FormatDC(term[t].dc_seq)]
          ELSE cashier_log[i]]
    /\ term' = [term EXCEPT ![t].pc = "linked"]
    /\ UNCHANGED <<branches, row_lock, sales_records, inventory_transactions,
                   approval_requests, owner, sale_status, failures,
                   cashier, calc,
                   firm_master, accessory_packages, pdf_challans>>

LinkBookingReceiptsFails(t) ==
    /\ term[t].pc = "created"
    /\ term[t].path = "direct"
    /\ term[t].receipt_ids # {}
    /\ Failed(t, "failed_late")
    /\ UNCHANGED <<branches, row_lock, sales_records, inventory_transactions,
                   approval_requests, cashier_log, owner,
                   cashier, calc,
                   firm_master, accessory_packages, pdf_challans>>

ReadyToLog(t) ==
    \/ term[t].path = "direct" /\ term[t].pc = "linked"
    \/ term[t].path = "direct" /\ term[t].pc = "created" /\ term[t].receipt_ids = {}
    \/ term[t].path = "resume" /\ term[t].pc = "completed"

\* log_sale: insert + commit; then the PDF is built and the dialog shown: from the
\* order object on the direct path, from reconstruct_sales_order on the resume path
LogSale(t) ==
    /\ ReadyToLog(t)
    /\ pdf_challans' = Append(pdf_challans,
          [dc_number |-> FormatDC(term[t].dc_seq), Branch_ID |-> TermBranch(t),
           accessory_bills |->
               IF term[t].path = "direct" THEN term[t].accessory_bills
               ELSE reconstruct_sales_order(PendingRecord(t), branches,
                        accessory_packages, firm_master).accessory_bills])
    /\ inventory_transactions' = Append(inventory_transactions,
          [Current_Branch_ID |-> TermBranch(t), Transaction_Type |-> "Sale",
           Remarks |-> "Auto-logged: " \o FormatDC(term[t].dc_seq)])
    /\ sale_status' = IF term[t].path = "direct"
                      THEN [sale_status EXCEPT ![term[t].sale] = "done"]
                      ELSE sale_status
    /\ term' = [term EXCEPT ![t] = IdleTerm]
    /\ UNCHANGED <<branches, row_lock, sales_records, approval_requests, cashier_log,
                   owner, failures,
                   cashier, calc, firm_master, accessory_packages>>

LogSaleFails(t) ==
    /\ ReadyToLog(t)
    /\ Failed(t, "failed_late")
    /\ UNCHANGED <<branches, row_lock, sales_records, inventory_transactions,
                   approval_requests, cashier_log, owner,
                   cashier, calc,
                   firm_master, accessory_packages, pdf_challans>>

(* ---------------- approval workflow ---------------- *)

\* create_approval_request: one row, Status Pending, the export dict as Order_JSON
create_approval_request(requests, record_data, branch_id) ==
    Append(requests, [Branch_ID |-> branch_id, Status |-> "Pending",
                      Discount_Requested |-> record_data.Discount_Given,
                      Order_JSON |-> record_data])

\* get_pending_approvals: the requests of the branch still open at the terminal
get_pending_approvals(requests, branch_id) ==
    {r \in DOMAIN requests :
        requests[r].Branch_ID = branch_id /\ requests[r].Status \in {"Pending", "Approved"}}

\* update_approval_status
update_approval_status(requests, r, status) == [requests EXCEPT ![r].Status = status]

\* variant: the DC number is taken when the request is submitted
SubmitForApproval_Allocates(t, s) ==
    /\ term[t].pc = "idle"
    /\ sale_status[s] = "draft"
    /\ requires_approval(SaleDiscount(s))
    /\ row_lock[SaleBranch(s)] = NoProc
    /\ approval_requests' = create_approval_request(approval_requests,
          get_data_for_export(s, FormatDC(NextDcSeq(branches[SaleBranch(s)])), 0, 0),
          SaleBranch(s))
    /\ branches' = [branches EXCEPT ![SaleBranch(s)].DC_Last_Number = @ + 1]
    /\ sale_status' = [sale_status EXCEPT ![s] = "submitted"]
    /\ UNCHANGED <<row_lock, sales_records, inventory_transactions,
                   cashier_log, term, owner, failures,
                   cashier, calc,
                   firm_master, accessory_packages, pdf_challans>>

\* SalesForm, "Submit for Approval"
SubmitForApproval(t, s) ==
    /\ term[t].pc = "idle"
    /\ sale_status[s] = "draft"
    /\ requires_approval(SaleDiscount(s))
    /\ LET linked == IF SaleLinksReceipts(s)
                     THEN SumAmount(get_unlinked_booking_receipts(SaleBranch(s))) ELSE 0
           data == get_data_for_export(s, "TEMP", 0, 0)
           record_data == IF linked > 0 THEN [data EXCEPT !.Payment_DD_Received = linked]
                          ELSE data
       IN  approval_requests' = create_approval_request(approval_requests, record_data,
                                                        SaleBranch(s))
    /\ sale_status' = [sale_status EXCEPT ![s] = "submitted"]
    /\ UNCHANGED <<branches, row_lock, sales_records, inventory_transactions,
                   cashier_log, term, owner, failures,
                   cashier, calc,
                   firm_master, accessory_packages, pdf_challans>>

\* render_approval_section: the rerun after a click lists the Pending requests
OwnerOpens(o, r) ==
    /\ owner[o] = 0
    /\ r \in DOMAIN approval_requests
    /\ approval_requests[r].Status = "Pending"
    /\ owner' = [owner EXCEPT ![o] = r]
    /\ UNCHANGED <<branches, row_lock, sales_records, inventory_transactions,
                   approval_requests, cashier_log, term, sale_status, failures,
                   cashier, calc,
                   firm_master, accessory_packages, pdf_challans>>

\* req.Status = 'Approved'; db.commit()
OwnerApproves(o) ==
    /\ owner[o] # 0
    /\ approval_requests' = [approval_requests EXCEPT ![owner[o]].Status = "Approved"]
    /\ owner' = [owner EXCEPT ![o] = 0]
    /\ UNCHANGED <<branches, row_lock, sales_records, inventory_transactions,
                   cashier_log, term, sale_status, failures,
                   cashier, calc,
                   firm_master, accessory_packages, pdf_challans>>

\* req.Status = 'Rejected'; db.commit()
OwnerRejects(o) ==
    /\ owner[o] # 0
    /\ approval_requests' = [approval_requests EXCEPT ![owner[o]].Status = "Rejected"]
    /\ owner' = [owner EXCEPT ![o] = 0]
    /\ UNCHANGED <<branches, row_lock, sales_records, inventory_transactions,
                   cashier_log, term, sale_status, failures,
                   cashier, calc,
                   firm_master, accessory_packages, pdf_challans>>

\* SalesForm, "Finalize & Print" on a request listed as Approved
BeginResume(t, r) ==
    /\ term[t].pc = "idle"
    /\ \E b \in Branches : r \in get_pending_approvals(approval_requests, b)
    /\ approval_requests[r].Status = "Approved"
    /\ term' = [term EXCEPT ![t] =
                  [IdleTerm EXCEPT !.pc = "begun", !.path = "resume", !.req = r,
                                   !.sale = approval_requests[r].Order_JSON.sale]]
    /\ UNCHANGED <<branches, row_lock, sales_records, inventory_transactions,
                   approval_requests, cashier_log, owner, sale_status, failures,
                   cashier, calc,
                   firm_master, accessory_packages, pdf_challans>>

\* update_approval_status(db, p.id, "Completed") after the record is committed
MarkCompleted(t) ==
    /\ term[t].pc = "created"
    /\ term[t].path = "resume"
    /\ approval_requests' = update_approval_status(approval_requests, term[t].req, "Completed")
    /\ term' = [term EXCEPT ![t].pc = "completed"]
    /\ UNCHANGED <<branches, row_lock, sales_records, inventory_transactions,
                   cashier_log, owner, sale_status, failures,
                   cashier, calc,
                   firm_master, accessory_packages, pdf_challans>>

MarkCompletedFails(t) ==
    /\ term[t].pc = "created"
    /\ term[t].path = "resume"
    /\ Failed(t, "failed_late")
    /\ UNCHANGED <<branches, row_lock, sales_records, inventory_transactions,
                   approval_requests, cashier_log, owner,
                   cashier, calc,
                   firm_master, accessory_packages, pdf_challans>>

(* ---------------- specification ---------------- *)

Next ==
    \/ \E t \in Terminals, s \in SaleIds : BeginDirect(t, s)
    \/ \E t \in Terminals : GetNextDcNumber(t)
    \/ \E t \in Terminals : LockWaitTimeout(t)
    \/ \E t \in Terminals : CreateSalesRecord(t)
    \/ \E t \in Terminals : CreateSalesRecordFails(t)
    \/ \E t \in Terminals : LinkBookingReceipts(t)
    \/ \E t \in Terminals : LinkBookingReceiptsFails(t)
    \/ \E t \in Terminals : LogSale(t)
    \/ \E t \in Terminals : LogSaleFails(t)
    \/ \E t \in Terminals, s \in SaleIds : SubmitForApproval(t, s)
    \/ \E o \in DOMAIN owner, r \in 1..MaxSales : OwnerOpens(o, r)
    \/ \E o \in DOMAIN owner : OwnerApproves(o)
    \/ \E o \in DOMAIN owner : OwnerRejects(o)
    \/ \E t \in Terminals, r \in 1..MaxSales : BeginResume(t, r)
    \/ \E t \in Terminals : MarkCompleted(t)
    \/ \E t \in Terminals : MarkCompletedFails(t)

Spec == Init /\ [][Next]_vars

SpecConcurrentOwners == InitConcurrentOwners /\ [][Next]_vars

(* ---------------- cashier daybook: add_transaction ---------------- *)

\* the entry forms a cashier submits:
\* <<transaction_type, category, generate_receipt_no, is_expense, date>>;
\* the service categories are offered at the non-head branch only, a receipt is
\* submitted with is_expense unset and a voucher with "Book as Actual Expense" ticked
CashierEntries(branch_id) ==
    {<<"Receipt", "Branch Receipt", TRUE, FALSE, 1>>,
     <<"Receipt", "Booking Receipt", TRUE, FALSE, 1>>,
     <<"Receipt", "Service", FALSE, FALSE, 1>>, <<"Voucher", "Petrol", TRUE, TRUE, 1>>}
    \cup (IF branch_id # "BR1"
          THEN {<<"Receipt", "Job Card Sale", TRUE, FALSE, 1>>,
                <<"Receipt", "Out Bill Sale", TRUE, FALSE, 1>>}
          ELSE {})

\* variant: the flag is stored as submitted
ExpenseFlag_AsGiven(transaction_type, is_expense) == is_expense

\* if txn_type == 'Receipt': data['is_expense'] = False
\* (import_transactions: expense_flag = False for a Receipt)
ExpenseFlag(transaction_type, is_expense) ==
    IF transaction_type = "Receipt" THEN FALSE ELSE is_expense

\* variant: the category is looked at before the transaction type
CounterOf_CategoryFirst(transaction_type, category) ==
    CASE category = "Branch Receipt" -> "Branch_Receipt_Last_Number"
      [] category = "Job Card Sale"  -> "Job_Card_Last_Number"
      [] category = "Out Bill Sale"  -> "Out_Bill_Last_Number"
      [] OTHER -> IF transaction_type = "Voucher" THEN "Voucher_Last_Number"
                  ELSE "Receipt_Last_Number"

\* the branch counter add_transaction advances for an entry
CounterOf(transaction_type, category) ==
    IF transaction_type = "Voucher" THEN "Voucher_Last_Number"
    ELSE CASE category = "Branch Receipt" -> "Branch_Receipt_Last_Number"
           [] category = "Job Card Sale"  -> "Job_Card_Last_Number"
           [] category = "Out Bill Sale"  -> "Out_Bill_Last_Number"
           [] OTHER                       -> "Receipt_Last_Number"

\* variant: the number handed out is the stored one
NextNumber_Reuse(branch, counter) == branch[counter]

\* current_num = <counter> if <counter> else 0; next_num = current_num + 1
NextNumber(branch, counter) == branch[counter] + 1

\* rows the open cashier sessions are about to insert
PendingRows ==
    Cardinality({c \in Cashiers : cashier[c].pc = "locked"})
        + Cardinality({ci \in Cashiers \X DOMAIN cashier_log :
                          ci[2] \in cashier[ci[1]].transaction_ids})

CashierBudget ==
    Len(cashier_log) + PendingRows < Len(InitCashierLog) + MaxCashierTxns

\* models.CashierTransaction(**data)
CashierRow(branch_id, transaction_type, category, receipt_number, voucher_number, is_expense, date) ==
    [branch_id |-> branch_id, transaction_type |-> transaction_type,
     category |-> category, amount |-> 1000 * 100, dc_number |-> "",
     receipt_number |-> receipt_number, voucher_number |-> voucher_number,
     is_expense |-> is_expense, date |-> date, imported_from_id |-> 0]

\* add_transaction up to the locking read of the branch row: the next number is
\* computed from the locked row and written to it inside the open transaction
AddTransactionLock(c, branch_id, entry) ==
    /\ cashier[c].pc = "idle"
    /\ branch_id \in DOMAIN branches
    /\ CashierBudget
    /\ entry[1] = "Voucher" \/ entry[3]
    /\ LockAvailable(branch_id, c)
    /\ row_lock' = [row_lock EXCEPT ![branch_id] = c]
    /\ cashier' = [cashier EXCEPT ![c] =
          [pc |-> "locked", branch_id |-> branch_id, transaction_type |-> entry[1],
           category |-> entry[2],
           next_num |-> NextNumber(branches[branch_id], CounterOf(entry[1], entry[2])),
           is_expense |-> ExpenseFlag(entry[1], entry[4]), date |-> entry[5],
           transaction_ids |-> {}]]
    /\ UNCHANGED <<branches, sales_records, inventory_transactions, approval_requests,
                   cashier_log, term, owner, sale_status, failures, calc,
                   firm_master, accessory_packages, pdf_challans>>

\* db.add(new_txn); db.commit(): the counter and the row commit together
AddTransactionCommit(c) ==
    /\ cashier[c].pc = "locked"
    /\ LET b == cashier[c].branch_id
           counter == CounterOf(cashier[c].transaction_type, cashier[c].category)
       IN  /\ branches' = [branches EXCEPT ![b][counter] = cashier[c].next_num]
           /\ cashier_log' = Append(cashier_log,
                 IF cashier[c].transaction_type = "Voucher"
                 THEN CashierRow(b, "Voucher", cashier[c].category, 0, cashier[c].next_num,
                                 cashier[c].is_expense, cashier[c].date)
                 ELSE CashierRow(b, "Receipt", cashier[c].category, cashier[c].next_num, 0,
                                 cashier[c].is_expense, cashier[c].date))
           /\ row_lock' = [row_lock EXCEPT ![b] = IF @ = c THEN NoProc ELSE @]
    /\ cashier' = [cashier EXCEPT ![c] = IdleCashier]
    /\ UNCHANGED <<sales_records, inventory_transactions, approval_requests, term, owner,
                   sale_status, failures, calc,
                   firm_master, accessory_packages, pdf_challans>>

\* variant: the counter written in the session survives the failure
AddTransactionFails_KeepsCounter(c) ==
    /\ cashier[c].pc = "locked"
    /\ failures < MaxFailures
    /\ failures' = failures + 1
    /\ branches' = [branches EXCEPT
          ![cashier[c].branch_id][CounterOf(cashier[c].transaction_type,
                                            cashier[c].category)] = cashier[c].next_num]
    /\ row_lock' = [row_lock EXCEPT ![cashier[c].branch_id] = IF @ = c THEN NoProc ELSE @]
    /\ cashier' = [cashier EXCEPT ![c] = IdleCashier]
    /\ UNCHANGED <<sales_records, inventory_transactions, approval_requests,
                   cashier_log, term, owner, sale_status, calc,
                   firm_master, accessory_packages, pdf_challans>>

\* except Exception: db.rollback(); the caller closes the session
AddTransactionFails(c) ==
    /\ cashier[c].pc = "locked"
    /\ failures < MaxFailures
    /\ failures' = failures + 1
    /\ row_lock' = [row_lock EXCEPT ![cashier[c].branch_id] = IF @ = c THEN NoProc ELSE @]
    /\ cashier' = [cashier EXCEPT ![c] = IdleCashier]
    /\ UNCHANGED <<branches, sales_records, inventory_transactions, approval_requests,
                   cashier_log, term, owner, sale_status, calc,
                   firm_master, accessory_packages, pdf_challans>>

\* variant: the skipped receipt still uses up a number of its series
AddTransactionUnnumbered_UsesNumber(c, branch_id, entry) ==
    /\ cashier[c].pc = "idle"
    /\ branch_id \in DOMAIN branches
    /\ CashierBudget
    /\ entry[1] = "Receipt" /\ ~entry[3]
    /\ cashier_log' = Append(cashier_log,
          CashierRow(branch_id, "Receipt", entry[2], 0, 0,
                     ExpenseFlag(entry[1], entry[4]), entry[5]))
    /\ branches' = [branches EXCEPT ![branch_id][CounterOf("Receipt", entry[2])] =
                        NextNumber(branches[branch_id], CounterOf("Receipt", entry[2]))]
    /\ UNCHANGED <<row_lock, sales_records, inventory_transactions,
                   approval_requests, term, owner, sale_status, failures, cashier, calc,
                   firm_master, accessory_packages, pdf_challans>>

\* a receipt entered with "Generate Receipt Number" unticked: no branch row is read
AddTransactionUnnumbered(c, branch_id, entry) ==
    /\ cashier[c].pc = "idle"
    /\ branch_id \in DOMAIN branches
    /\ CashierBudget
    /\ entry[1] = "Receipt" /\ ~entry[3]
    /\ cashier_log' = Append(cashier_log,
          CashierRow(branch_id, "Receipt", entry[2], 0, 0,
                     ExpenseFlag(entry[1], entry[4]), entry[5]))
    /\ UNCHANGED <<branches, row_lock, sales_records, inventory_transactions,
                   approval_requests, term, owner, sale_status, failures, cashier, calc,
                   firm_master, accessory_packages, pdf_challans>>

CashierNext ==
    \/ \E c \in Cashiers, b \in Branches :
          \E e \in CashierEntries(b) : AddTransactionLock(c, b, e)
    \/ \E c \in Cashiers : AddTransactionCommit(c)
    \/ \E c \in Cashiers : AddTransactionFails(c)
    \/ \E c \in Cashiers, b \in Branches :
          \E e \in CashierEntries(b) : AddTransactionUnnumbered(c, b, e)

(* ---------------- cashier daybook: import from another branch ---------------- *)

\* the data dicts add_transaction accepts beyond what the entry form submits: a
\* receipt flagged as an expense, and a voucher carrying a receipt category with
\* generate_receipt_no unset
DaybookEntries(branch_id) ==
    CashierEntries(branch_id)
        \cup {<<"Receipt", "Vehicle Sale", TRUE, TRUE, 1>>,
              <<"Voucher", "Branch Receipt", FALSE, TRUE, 1>>}

\* source dates of the import tab, and the booking date the copies are entered on
SourceDates == {1, 2}
WorkingDate == CHOOSE d \in SourceDates : \A e \in SourceDates : e <= d

\* the rows of the remote branch on the selected date whose id is not the
\* imported_from_id of a row of the current branch; a row's id is its position
get_remote_branch_transactions(table, remote_branch_id, current_branch_id, selected_date) ==
    LET imported_ids == {table[j].imported_from_id :
                            j \in {k \in DOMAIN table :
                                      /\ table[k].branch_id = current_branch_id
                                      /\ table[k].imported_from_id # 0}}
    IN  {i \in DOMAIN table :
            /\ table[i].branch_id = remote_branch_id
            /\ table[i].date = selected_date
            /\ i \notin imported_ids}

\* variant: the copy does not record where it came from
ImportedRow_NoOrigin(src, id, target_branch_id, target_date) ==
    [src EXCEPT !.date = target_date,
                !.category = "Imported: " \o @,
                !.branch_id = target_branch_id,
                !.is_expense = ExpenseFlag(src.transaction_type, @)]

\* the copy import_transactions makes of one source row
ImportedRow(src, id, target_branch_id, target_date) ==
    [src EXCEPT !.date = target_date,
                !.category = "Imported: " \o @,
                !.branch_id = target_branch_id,
                !.is_expense = ExpenseFlag(src.transaction_type, @),
                !.imported_from_id = id]

\* the orders in which the unordered source query may return the selected rows
ImportOrders(ids) ==
    {sq \in [1..Cardinality(ids) -> ids] :
        \A i, j \in DOMAIN sq : i # j => sq[i] # sq[j]}

\* render_import_tab: "Fetch Transactions" lists the remote branch's rows of a date
\* that are new to the current branch, and the cashier ticks some of them
FetchRemoteTransactions(c, current_branch_id, remote_bid, source_date, ids) ==
    /\ cashier[c].pc = "idle"
    /\ remote_bid # current_branch_id
    /\ ids # {}
    /\ ids \subseteq get_remote_branch_transactions(
                         cashier_log, remote_bid, current_branch_id, source_date)
    /\ Len(cashier_log) + PendingRows + Cardinality(ids)
           <= Len(InitCashierLog) + MaxCashierTxns
    /\ cashier' = [cashier EXCEPT ![c] =
          [IdleCashier EXCEPT !.pc = "importing", !.branch_id = current_branch_id,
                              !.date = WorkingDate, !.transaction_ids = ids]]
    /\ UNCHANGED <<branches, row_lock, sales_records, inventory_transactions,
                   approval_requests, cashier_log, term, owner, sale_status, failures, calc,
                   firm_master, accessory_packages, pdf_challans>>

\* import_transactions: one copy per selected row, all committed together
ImportTransactions(c) ==
    /\ cashier[c].pc = "importing"
    /\ \E sq \in ImportOrders(cashier[c].transaction_ids) :
          cashier_log' = cashier_log \o
              [k \in DOMAIN sq |->
                  ImportedRow(cashier_log[sq[k]], sq[k], cashier[c].branch_id, cashier[c].date)]
    /\ cashier' = [cashier EXCEPT ![c] = IdleCashier]
    /\ UNCHANGED <<branches, row_lock, sales_records, inventory_transactions,
                   approval_requests, term, owner, sale_status, failures, calc,
                   firm_master, accessory_packages, pdf_challans>>

\* except Exception: db.rollback()
ImportTransactionsFails(c) ==
    /\ cashier[c].pc = "importing"
    /\ failures < MaxFailures
    /\ failures' = failures + 1
    /\ cashier' = [cashier EXCEPT ![c] = IdleCashier]
    /\ UNCHANGED <<branches, row_lock, sales_records, inventory_transactions,
                   approval_requests, cashier_log, term, owner, sale_status, calc,
                   firm_master, accessory_packages, pdf_challans>>

\* the cashier desks of the branches entering and importing transactions
NextDaybook ==
    \/ \E c \in Cashiers, b \in Branches :
          \E e \in DaybookEntries(b) : AddTransactionLock(c, b, e)
    \/ \E c \in Cashiers : AddTransactionCommit(c)
    \/ \E c \in Cashiers : AddTransactionFails(c)
    \/ \E c \in Cashiers, b \in Branches :
          \E e \in DaybookEntries(b) : AddTransactionUnnumbered(c, b, e)
    \/ \E c \in Cashiers, b \in Branches, r \in Branches, d \in SourceDates :
          \E ids \in SUBSET DOMAIN cashier_log : FetchRemoteTransactions(c, b, r, d, ids)
    \/ \E c \in Cashiers : ImportTransactions(c)
    \/ \E c \in Cashiers : ImportTransactionsFails(c)

SpecDaybook == Init /\ [][NextDaybook]_vars

(* ---------------- a branch id that has no row in branches ---------------- *)

\* the branches table without the row of BR1, and no cashier row yet
InitMissingBranch ==
    /\ branches = [b \in Branches \ {"BR1"} |-> InitBranches[b]]
    /\ row_lock = [b \in Branches |-> NoProc]
    /\ sales_records = <<>>
    /\ inventory_transactions = <<>>
    /\ approval_requests = <<>>
    /\ cashier_log = <<>>
    /\ firm_master = FirmMaster
    /\ accessory_packages = AccessoryPackages
    /\ pdf_challans = <<>>
    /\ term = [t \in Terminals |-> IdleTerm]
    /\ sale_status = [s \in SaleIds |-> "draft"]
    /\ failures = 0
    /\ cashier = [c \in Cashiers |-> IdleCashier]
    /\ owner = [o \in {"o1"} |-> 0]
    /\ calc = NoCall

\* get_next_dc_number: if not branch: raise ValueError; the script reports
\* "Transaction failed" and db_session closes the session
BranchNotFound(t) ==
    /\ term[t].pc = "begun"
    /\ TermBranch(t) \notin DOMAIN branches
    /\ sale_status' = IF term[t].path = "direct"
                      THEN [sale_status EXCEPT ![term[t].sale] = "rolled_back"]
                      ELSE sale_status
    /\ term' = [term EXCEPT ![t] = IdleTerm]
    /\ UNCHANGED <<branches, row_lock, sales_records, inventory_transactions,
                   approval_requests, cashier_log, owner, failures, cashier, calc,
                   firm_master, accessory_packages, pdf_challans>>

\* add_transaction when the locking read finds no branch row: "if branch:" skips the
\* numbering and the row is added without a number. The commit is subject to the
\* foreign key of cashier_log.branch_id: the MySQL engine rejects the row and the
\* handler rolls back and returns False; the SQLite engine of the fallback URL does
\* not enforce the key, the row is stored and the handler returns True
AddTransactionNoBranch(c, branch_id, entry) ==
    /\ cashier[c].pc = "idle"
    /\ CashierBudget
    /\ branch_id \notin DOMAIN branches
    /\ \/ /\ cashier_log' = cashier_log
          /\ cashier' = [cashier EXCEPT ![c] =
                [IdleCashier EXCEPT !.pc = "error", !.branch_id = branch_id,
                                    !.transaction_type = entry[1],
                                    !.category = entry[2]]]
       \/ /\ cashier_log' = Append(cashier_log,
                CashierRow(branch_id, entry[1], entry[2], 0, 0,
                           ExpenseFlag(entry[1], entry[4]), entry[5]))
          /\ cashier' = cashier
    /\ UNCHANGED <<branches, row_lock, sales_records, inventory_transactions,
                   approval_requests, term, owner, sale_status, failures, calc,
                   firm_master, accessory_packages, pdf_challans>>

\* st.error(msg): the entry form is shown again
EntryFormAgain(c) ==
    /\ cashier[c].pc = "error"
    /\ cashier' = [cashier EXCEPT ![c] = IdleCashier]
    /\ UNCHANGED <<branches, row_lock, sales_records, inventory_transactions,
                   approval_requests, cashier_log, term, owner, sale_status, failures, calc,
                   firm_master, accessory_packages, pdf_challans>>

\* the numbered entries tried in this scenario: a branch receipt and a voucher
NumberedEntries(branch_id) ==
    {e \in CashierEntries(branch_id) : e[2] \in {"Branch Receipt", "Petrol"}}

\* sales terminals and cashier desks working for the branch without a row, and
\* cashier desks working for the other branch
NextMissingBranch ==
    \/ \E t \in Terminals, s \in SaleIds :
          SaleBranch(s) \notin DOMAIN branches /\ BeginDirect(t, s)
    \/ \E t \in Terminals : BranchNotFound(t)
    \/ \E c \in Cashiers, b \in Branches :
          \E e \in NumberedEntries(b) : AddTransactionNoBranch(c, b, e)
    \/ \E c \in Cashiers : EntryFormAgain(c)
    \/ \E c \in Cashiers, b \in Branches :
          \E e \in NumberedEntries(b) : AddTransactionLock(c, b, e)
    \/ \E c \in Cashiers : AddTransactionCommit(c)
    \/ \E c \in Cashiers : AddTransactionFails(c)

SpecMissingBranch == InitMissingBranch /\ [][NextMissingBranch]_vars

(* ---------------- reprint of a stored DC; reference data edited ---------------- *)

\* the packages an administrator changes the models to: ACTIVA loses its floor mat
\* and its slot-2 body cover, DIO gains a body cover in slot 2
RevisedPackages ==
    [m \in {"ACTIVA", "DIO"} |->
        IF m = "ACTIVA"
        THEN <<"GUARD", "", "", "", "", "", "", "", "", "">>
        ELSE <<"GUARD", "", "", "", "COVER", "", "", "", "", "">>]

\* the accessory_packages row of a model is edited
PackageChanged(m) ==
    /\ m \in DOMAIN accessory_packages
    /\ accessory_packages[m] # RevisedPackages[m]
    /\ accessory_packages' = [accessory_packages EXCEPT ![m] = RevisedPackages[m]]
    /\ UNCHANGED <<branches, row_lock, sales_records, inventory_transactions,
                   approval_requests, cashier_log, term, owner, sale_status, failures,
                   cashier, calc, firm_master, pdf_challans>>

\* a firm_master row is deleted
FirmRemoved(f) ==
    /\ f \in DOMAIN firm_master
    /\ firm_master' = [x \in DOMAIN firm_master \ {f} |-> firm_master[x]]
    /\ UNCHANGED <<branches, row_lock, sales_records, inventory_transactions,
                   approval_requests, cashier_log, term, owner, sale_status, failures,
                   cashier, calc, accessory_packages, pdf_challans>>

\* "Reprint" of a recent record: reconstruct_sales_order(db, record_id) in a session
\* of its own, reading the tables as they are
Reprint(record_id) ==
    /\ record_id \in DOMAIN sales_records
    /\ calc' = [op |-> "reconstruct_sales_order", record_id |-> record_id,
                firms |-> firm_master, packages |-> accessory_packages, done |-> TRUE,
                result |-> reconstruct_sales_order(sales_records[record_id], branches,
                                                   accessory_packages, firm_master)]
    /\ UNCHANGED <<branches, row_lock, sales_records, inventory_transactions,
                   approval_requests, cashier_log, term, owner, sale_status, failures,
                   cashier, firm_master, accessory_packages, pdf_challans>>

\* direct finalizations, reprints of the stored records, and the reference tables
\* being edited meanwhile
NextReprint ==
    \/ \E t \in Terminals, s \in SaleIds : BeginDirect(t, s)
    \/ \E t \in Terminals : GetNextDcNumber(t)
    \/ \E t \in Terminals : CreateSalesRecord(t)
    \/ \E t \in Terminals : CreateSalesRecordFails(t)
    \/ \E t \in Terminals : LinkBookingReceipts(t)
    \/ \E t \in Terminals : LinkBookingReceiptsFails(t)
    \/ \E t \in Terminals : LogSale(t)
    \/ \E t \in Terminals : LogSaleFails(t)
    \/ \E m \in DOMAIN AccessoryPackages : PackageChanged(m)
    \/ \E f \in DOMAIN FirmMaster : FirmRemoved(f)
    \/ \E r \in 1..MaxSales : Reprint(r)

SpecReprint == Init /\ [][NextReprint]_vars

\* the sale form open at the terminals while the cashier desk works
DaybookSales == {s \in SaleIds : s = 1}

\* one sale form (finalized again after a late failure), reprints of the stored
\* records, and the reference tables being edited meanwhile
NextReprintOneForm ==
    \/ \E t \in Terminals, s \in DaybookSales : BeginDirect(t, s)
    \/ \E t \in Terminals : GetNextDcNumber(t)
    \/ \E t \in Terminals : CreateSalesRecord(t)
    \/ \E t \in Terminals : CreateSalesRecordFails(t)
    \/ \E t \in Terminals : LinkBookingReceipts(t)
    \/ \E t \in Terminals : LinkBookingReceiptsFails(t)
    \/ \E t \in Terminals : LogSale(t)
    \/ \E t \in Terminals : LogSaleFails(t)
    \/ \E m \in DOMAIN AccessoryPackages : PackageChanged(m)
    \/ \E f \in DOMAIN FirmMaster : FirmRemoved(f)
    \/ \E r \in 1..MaxSales : Reprint(r)

SpecReprintOneForm == Init /\ [][NextReprintOneForm]_vars

\* the entries the cashier desks make beside the sales floor: the receipt, branch
\* receipt and voucher series and the receipt without a number
SalesFloorEntries(branch_id) ==
    {e \in CashierEntries(branch_id) : e[2] \notin {"Job Card Sale", "Out Bill Sale"}}

\* direct finalizations at the sales terminals and the cashier daybook working on
\* the same database
NextCashier ==
    \/ \E t \in Terminals, s \in DaybookSales : BeginDirect(t, s)
    \/ \E t \in Terminals : GetNextDcNumber(t)
    \/ \E t \in Terminals : LockWaitTimeout(t)
    \/ \E t \in Terminals : CreateSalesRecord(t)
    \/ \E t \in Terminals : CreateSalesRecordFails(t)
    \/ \E t \in Terminals : LinkBookingReceipts(t)
    \/ \E t \in Terminals : LinkBookingReceiptsFails(t)
    \/ \E t \in Terminals : LogSale(t)
    \/ \E t \in Terminals : LogSaleFails(t)
    \/ \E c \in Cashiers, b \in Branches :
          \E e \in SalesFloorEntries(b) : AddTransactionLock(c, b, e)
    \/ \E c \in Cashiers : AddTransactionCommit(c)
    \/ \E c \in Cashiers : AddTransactionFails(c)
    \/ \E c \in Cashiers, b \in Branches :
          \E e \in SalesFloorEntries(b) : AddTransactionUnnumbered(c, b, e)

SpecCashier == Init /\ [][NextCashier]_vars

\* BR1 later in its life: its accessory counters started at zero and 999
\* finalizations of a model that bills slot 1 only (sequences 1000 .. 1998) have
\* been committed since
LongRunBranches ==
    [InitBranches EXCEPT !["BR1"].DC_Last_Number = @ + 999,
                         !["BR1"].Acc_Inv_1_Last_Number = 1000 + 998]

InitLongRun ==
    /\ branches = LongRunBranches
    /\ row_lock = [b \in Branches |-> NoProc]
    /\ sales_records = <<>>
    /\ inventory_transactions = <<>>
    /\ approval_requests = <<>>
    /\ cashier_log = InitCashierLog
    /\ firm_master = FirmMaster
    /\ accessory_packages = AccessoryPackages
    /\ pdf_challans = <<>>
    /\ term = [t \in Terminals |-> IdleTerm]
    /\ sale_status = [s \in SaleIds |-> "draft"]
    /\ failures = 0
    /\ cashier = [c \in Cashiers |-> IdleCashier]
    /\ owner = [o \in {"o1"} |-> 0]
    /\ calc = NoCall

SpecLongRun == InitLongRun /\ [][Next]_vars

\* the end-to-end scenario: BR1 has a firm for slot 1 only and ACTIVA's package
\* (Guard Kit 900.00 + Floor Mat 300.00 + a free Key Chain) lies entirely in the
\* slot-1 columns; the slot-1 counter is either untouched or already past its floor
EndToEndPackages ==
    [AccessoryPackages EXCEPT
        !["ACTIVA"] = <<"GUARD", "MAT", "", "FREEBIE", "", "", "", "", "", "">>]

EndToEndBranches(acc_inv_1_last_number) ==
    [InitBranches EXCEPT !["BR1"].Firm_ID_2 = 0,
                         !["BR1"].Acc_Inv_1_Last_Number = acc_inv_1_last_number]

InitEndToEnd ==
    /\ \E n \in {InitBranches["BR1"].Acc_Inv_1_Last_Number,
                 InitBranches["BR2"].Acc_Inv_1_Last_Number} :
           branches = EndToEndBranches(n)
    /\ row_lock = [b \in Branches |-> NoProc]
    /\ sales_records = <<>>
    /\ inventory_transactions = <<>>
    /\ approval_requests = <<>>
    /\ cashier_log = InitCashierLog
    /\ firm_master = FirmMaster
    /\ accessory_packages = EndToEndPackages
    /\ pdf_challans = <<>>
    /\ term = [t \in Terminals |-> IdleTerm]
    /\ sale_status = [s \in SaleIds |-> "draft"]
    /\ failures = 0
    /\ cashier = [c \in Cashiers |-> IdleCashier]
    /\ owner = [o \in {"o1"} |-> 0]
    /\ calc = NoCall

SpecEndToEnd == InitEndToEnd /\ [][Next]_vars

\* the bills of the scenario: exactly one, for slot 1 and firm 1, of 1200.00
OnlySlotOneBill(bills) ==
    /\ Len(bills) = 1
    /\ bills[1].accessory_slot = 1
    /\ bills[1].firm_id = 1
    /\ bills[1].grand_total = 1200 * 100

\* C30: in the end-to-end scenario (BR1 with DC_Last_Number 5, Firm_ID_1 = 1 and no
\* Firm_ID_2; ACTIVA's package of 1200.00 all in slot 1) the finalization that
\* commits BR1's record stores DC number "DC-0006" and leaves DC_Last_Number at 6,
\* Acc_Inv_1_Last_Number at its prior value raised to the floor's predecessor (999)
\* plus 1, and Acc_Inv_2_Last_Number as it was; the order carries exactly one bill
\* (slot 1, firm 1, grand_total 1200.00) and no slot-2 bill, and so does the challan
\* printed for DC-0006.
C30_EndToEnd ==
    [][/\ \A t \in Terminals :
            (/\ term[t].pc = "locked"
             /\ term'[t].pc = "created"
             /\ TermBranch(t) = "BR1"
             /\ branches["BR1"].DC_Last_Number = 5)
            => LET prior == branches["BR1"].Acc_Inv_1_Last_Number
                   adjusted == IF prior < 1000 THEN 999 ELSE prior
                   record == sales_records'[Len(sales_records')]
               IN  /\ record.DC_Number = "DC-0006"
                   /\ record.Acc_Inv_1_No = adjusted + 1
                   /\ record.Acc_Inv_2_No = 0
                   /\ branches'["BR1"].DC_Last_Number = 6
                   /\ branches'["BR1"].Acc_Inv_1_Last_Number = adjusted + 1
                   /\ branches'["BR1"].Acc_Inv_2_Last_Number
                          = branches["BR1"].Acc_Inv_2_Last_Number
                   /\ OnlySlotOneBill(term[t].accessory_bills)
                   /\ term[t].accessory_bills[1].Acc_Inv_Seq = adjusted + 1
       /\ (Len(pdf_challans') > Len(pdf_challans)
           /\ pdf_challans'[Len(pdf_challans')].Branch_ID = "BR1"
           /\ pdf_challans'[Len(pdf_challans')].dc_number = "DC-0006")
          => OnlySlotOneBill(pdf_challans'[Len(pdf_challans')].accessory_bills)
      ]_vars

\* the scenario has run to its end on a counter that was past the floor and on an
\* untouched one: record DC-0006 is stored and its challan is printed
C30_Witness ==
    /\ \E i \in DOMAIN sales_records :
           /\ sales_records[i].Branch_ID = "BR1"
           /\ sales_records[i].DC_Number = "DC-0006"
           /\ sales_records[i].Acc_Inv_1_No = branches["BR1"].Acc_Inv_1_Last_Number
           /\ sales_records[i].Acc_Inv_1_No \in {1000, 1004}
    /\ branches["BR1"].DC_Last_Number = 6
    /\ \E j \in DOMAIN pdf_challans :
           /\ pdf_challans[j].Branch_ID = "BR1"
           /\ pdf_challans[j].dc_number = "DC-0006"
           /\ OnlySlotOneBill(pdf_challans[j].accessory_bills)

(* ---------------- the pure functions on drawn arguments ---------------- *)

\* accessory items as get_accessory_package_for_model builds them, for either slot,
\* and a negatively priced line
AccessoryItems ==
    {[name |-> AccessoryMaster[a].Item_Name, price |-> AccessoryMaster[a].price,
      firm_slot |-> slot] : a \in DOMAIN AccessoryMaster, slot \in {1, 2}}
    \cup {[name |-> "Adjustment", price |-> 0 - 5000, firm_slot |-> slot] : slot \in {1, 2}}

AccessoryLists == UNION {[1..n -> AccessoryItems] : n \in 0..MaxItems}

\* branch rows as the splitter and the numbering read them; firm 9 is assigned to
\* the branch but has no firm_master row, 0 is NULL
BranchRows ==
    {[InitBranches["BR1"] EXCEPT !.Firm_ID_1 = f1, !.Firm_ID_2 = f2,
                                 !.Acc_Inv_1_Last_Number = n1, !.Acc_Inv_2_Last_Number = n2] :
        f1 \in {0, 1, 9}, f2 \in {0, 2, 9},
        n1 \in {0, 999, 1000, 1003}, n2 \in {0, 1999, 2000, 2500}}

\* incentive_rules as get_config_lists_by_branch loads them from the financiers
\* table (Incentive_Type is one of the two rule types); values are whole numbers
IncentiveRules ==
    {[f \in {"HDFC", "LT"} |->
         IF f = "HDFC" THEN [type |-> "percentage_dd", value |-> 2]
         ELSE [type |-> "fixed_file", value |-> 50000]],
     [f \in {"Bank", "HDFC"} |-> [type |-> "fixed_file", value |-> 70000]]}

SplitCalls ==
    {[op |-> "process_accessories_and_split", accessory_list |-> l, branch |-> b,
      done |-> FALSE, result |-> <<>>] :
        l \in AccessoryLists,
        b \in {r \in BranchRows : r.Acc_Inv_1_Last_Number = 0 /\ r.Acc_Inv_2_Last_Number = 0}}

NumberCalls ==
    {[op |-> "generate_accessory_invoice_number", branch |-> b, firm_id |-> f,
      accessory_slot |-> slot, done |-> FALSE, result |-> <<>>] :
        b \in {r \in BranchRows : r.Firm_ID_1 = 1 /\ r.Firm_ID_2 = 2},
        f \in {1, 2, 9}, slot \in {1, 2, 3}}

FeeCalls ==
    {[op |-> "calculate_finance_fees", financier_name |-> f, dd_amount |-> dd,
      out_finance_flag |-> flag, incentive_rules |-> rules, done |-> FALSE,
      result |-> <<>>] :
        f \in {"Bank", "HDFC", "LT", "Other"}, dd \in {0, 30000 * 100},
        flag \in BOOLEAN, rules \in IncentiveRules}

\* ---- cashier ledger queries ----

MaxLedgerRows == 2

\* the daybook's view modes: "All" passes no mode, "Cash Only" one mode,
\* "Online/Card" a list of modes; a mode argument is the sequence of its modes
NoMode == <<>>
ViewModes == {NoMode, <<"Cash">>, <<"Online", "Card">>}

SeqRange(seq) == {seq[i] : i \in 1..Len(seq)}

RECURSIVE get_opening_balance_UpToDate(_, _, _, _)
RECURSIVE get_opening_balance(_, _, _, _)

\* variant: the rows of the target date are included
get_opening_balance_UpToDate(table, branch_id, target_date, mode) ==
    IF table = <<>> THEN 0
    ELSE LET t == Head(table)
             selected == /\ t.branch_id = branch_id
                         /\ t.date <= target_date
                         /\ (mode # NoMode => t.payment_mode \in SeqRange(mode))
             signed == IF t.transaction_type = "Receipt" THEN t.amount ELSE 0 - t.amount
         IN  (IF selected THEN signed ELSE 0)
                 + get_opening_balance_UpToDate(Tail(table), branch_id, target_date, mode)

\* get_opening_balance: SUM(CASE Receipt THEN amount ELSE -amount) over the rows of
\* the branch dated before target_date, filtered by mode when one is given;
\* a NULL sum (no row) is returned as 0
get_opening_balance(table, branch_id, target_date, mode) ==
    IF table = <<>> THEN 0
    ELSE LET t == Head(table)
             selected == /\ t.branch_id = branch_id
                         /\ t.date < target_date
                         /\ (mode # NoMode => t.payment_mode \in SeqRange(mode))
             signed == IF t.transaction_type = "Receipt" THEN t.amount ELSE 0 - t.amount
         IN  (IF selected THEN signed ELSE 0)
                 + get_opening_balance(Tail(table), branch_id, target_date, mode)

\* rows of cashier_log as far as the balance query reads them: every kind of row
\* of the queried branch, and of the other branch an earlier cash receipt
LedgerRows(branch_id) ==
    {r \in [branch_id : Branches, date : {1, 2},
            transaction_type : {"Receipt", "Voucher"},
            payment_mode : {"Cash", "Online", "Card"}, amount : {100 * 100, 250 * 100}] :
        \/ r.branch_id = branch_id
        \/ /\ r.date = 1
           /\ r.transaction_type = "Receipt"
           /\ r.payment_mode = "Cash"
           /\ r.amount = 100 * 100}

LedgerTables(branch_id, max_rows) ==
    UNION {[1..n -> LedgerRows(branch_id)] : n \in 0..max_rows}

BalanceCalls(max_rows) ==
    {[op |-> "get_opening_balance", table |-> tb, branch_id |-> "BR1",
      target_date |-> 2, mode |-> m, done |-> FALSE, result |-> <<>>] :
        tb \in LedgerTables("BR1", max_rows), m \in ViewModes}

\* Finance orders as the sales form builds them: the fees come from
\* calculate_finance_fees, the DD amount is typed in, the down payment is computed
FinanceCalls ==
    {[op |-> "set_finance_details", final_cost |-> SaleFinalCost(s),
      hp_fee |-> fee, incentive_earned |-> inc, dd_amount |-> dd,
      down_payment |-> RequiredDownPayment(SaleFinalCost(s), fee, inc, dd),
      done |-> FALSE, result |-> <<>>] :
        s \in {1, 2}, fee \in {HP_FEE_DEFAULT, HP_FEE_BANK_QUOTATION},
        inc \in {0, 500 * 100}, dd \in {0, 30000 * 100, 90000 * 100}}

InitCalc ==
    /\ InitTables
    /\ owner = [o \in {"o1"} |-> 0]
    /\ \/ calc \in SplitCalls \cup NumberCalls \cup FeeCalls \cup FinanceCalls
       \/ calc \in BalanceCalls(MaxLedgerRows)

Frame ==
    UNCHANGED <<branches, row_lock, sales_records, inventory_transactions,
                approval_requests, cashier_log, term, owner, sale_status, failures,
                cashier,
                   firm_master, accessory_packages, pdf_challans>>

CallSplit ==
    /\ calc.op = "process_accessories_and_split"
    /\ ~calc.done
    /\ calc' = [calc EXCEPT !.done = TRUE,
                            !.result = process_accessories_and_split(
                                           calc.accessory_list, FirmMaster, calc.branch)]
    /\ Frame

CallNumber ==
    /\ calc.op = "generate_accessory_invoice_number"
    /\ ~calc.done
    /\ calc' = [calc EXCEPT !.done = TRUE,
                            !.result = generate_accessory_invoice_number(FirmMaster,
                                           calc.branch, calc.firm_id, calc.accessory_slot)]
    /\ Frame

CallFees ==
    /\ calc.op = "calculate_finance_fees"
    /\ ~calc.done
    /\ calc' = [calc EXCEPT !.done = TRUE,
                            !.result = calculate_finance_fees(
                                           calc.financier_name, calc.dd_amount,
                                           calc.out_finance_flag, calc.incentive_rules)]
    /\ Frame

CallSetFinanceDetails ==
    /\ calc.op = "set_finance_details"
    /\ ~calc.done
    /\ calc' = [calc EXCEPT !.done = TRUE,
                            !.result = set_finance_details(
                                           calc.final_cost, calc.hp_fee, calc.incentive_earned,
                                           calc.dd_amount, calc.down_payment)]
    /\ Frame

CallOpeningBalance ==
    /\ calc.op = "get_opening_balance"
    /\ ~calc.done
    /\ calc' = [calc EXCEPT !.done = TRUE,
                            !.result = get_opening_balance(
                                           calc.table, calc.branch_id, calc.target_date, calc.mode)]
    /\ Frame

NextCalc ==
    CallSplit \/ CallNumber \/ CallFees \/ CallSetFinanceDetails \/ CallOpeningBalance

SpecCalc == InitCalc /\ [][NextCalc]_vars

(* ---------------- properties ---------------- *)

RecordsOf(b) == {i \in DOMAIN sales_records : sales_records[i].Branch_ID = b}

RecordsOfSale(s) ==
    {i \in DOMAIN sales_records : sales_records[i].sale = s /\ sales_records[i].request = 0}

LogEntriesOf(rec) ==
    {k \in DOMAIN inventory_transactions :
        /\ inventory_transactions[k].Current_Branch_ID = rec.Branch_ID
        /\ inventory_transactions[k].Remarks = "Auto-logged: " \o rec.DC_Number}

Quiescent == \A t \in Terminals : term[t].pc = "idle"

\* C1: (Branch_ID, DC_Number) is unique among SalesRecords, and a finalization that
\* has been handed a DC number and is about to commit never holds a number that a
\* committed record of its branch already carries.
C1_UniqueDcNumber ==
    /\ \A i, j \in DOMAIN sales_records :
          (i # j /\ sales_records[i].Branch_ID = sales_records[j].Branch_ID)
              => sales_records[i].DC_Number # sales_records[j].DC_Number
    /\ \A t \in Terminals :
          term[t].pc = "locked" =>
              \A i \in RecordsOf(TermBranch(t)) :
                  sales_records[i].DC_Number # FormatDC(term[t].dc_seq)

\* a direct and a resumed finalization of one branch have both committed, and a
\* further finalization holds the lock while another terminal waits for it
C1_Witness ==
    /\ \E i, j \in DOMAIN sales_records :
          /\ sales_records[i].Branch_ID = sales_records[j].Branch_ID
          /\ sales_records[i].request = 0
          /\ sales_records[j].request # 0
    /\ \E t, u \in Terminals :
          /\ term[t].pc = "locked"
          /\ term[u].pc = "begun"
          /\ TermBranch(t) = TermBranch(u)

\* C2: no two SalesRecords of a branch carry the same accessory invoice sequence
\* for the same slot, and a finalization holding freshly computed slot sequences
\* holds the branch row lock and its sequences lie above the stored counters.
C2_UniqueAccInvoice ==
    /\ \A i, j \in DOMAIN sales_records :
          (i # j /\ sales_records[i].Branch_ID = sales_records[j].Branch_ID) =>
              /\ sales_records[i].Acc_Inv_1_No # 0
                    => sales_records[i].Acc_Inv_1_No # sales_records[j].Acc_Inv_1_No
              /\ sales_records[i].Acc_Inv_2_No # 0
                    => sales_records[i].Acc_Inv_2_No # sales_records[j].Acc_Inv_2_No
    /\ \A t \in Terminals :
          term[t].pc = "locked" =>
              /\ row_lock[TermBranch(t)] = t
              /\ term[t].bill_1_seq # 0
                    => term[t].bill_1_seq > branches[TermBranch(t)].Acc_Inv_1_Last_Number
              /\ term[t].bill_2_seq # 0
                    => term[t].bill_2_seq > branches[TermBranch(t)].Acc_Inv_2_Last_Number

\* two committed finalizations of one branch both billed slot 1 and slot 2
C2_Witness ==
    \E i, j \in DOMAIN sales_records :
        /\ i # j
        /\ sales_records[i].Branch_ID = sales_records[j].Branch_ID
        /\ sales_records[i].Acc_Inv_1_No >= 1000 /\ sales_records[j].Acc_Inv_1_No >= 1000
        /\ sales_records[i].Acc_Inv_2_No >= 2000 /\ sales_records[j].Acc_Inv_2_No >= 2000

\* C3: with N committed finalizations of a branch, the DC numbers issued are exactly
\* last+1 .. last+N, DC_Last_Number = last+N, and a finalization holding the lock
\* computed its number from the increments committed before it.
C3_GapFree ==
    \A b \in Branches :
        LET last == InitBranches[b].DC_Last_Number
            n == Cardinality(RecordsOf(b))
        IN  /\ branches[b].DC_Last_Number = last + n
            /\ {sales_records[i].DC_Number : i \in RecordsOf(b)}
                  = {FormatDC(k) : k \in (last + 1)..(last + n)}
            /\ \A t \in Terminals :
                  (term[t].pc = "locked" /\ TermBranch(t) = b)
                      => term[t].dc_seq = last + n + 1

\* three finalizations of one branch committed with an aborted attempt among them
C3_Witness ==
    \E b \in Branches :
        /\ Cardinality(RecordsOf(b)) >= 3
        /\ branches[b].DC_Last_Number = InitBranches[b].DC_Last_Number + 3
        /\ failures > 0

\* C4: a finalization that fails between the locking read and the commit leaves
\* every branch counter, the SalesRecords and the inventory log as they were.
C4_RollbackRestores ==
    [][\A t \in Terminals :
          (term[t].pc = "locked" /\ term'[t].pc = "idle")
              => /\ branches' = branches
                 /\ sales_records' = sales_records
                 /\ inventory_transactions' = inventory_transactions]_vars

\* a sale whose create_sales_record was rolled back: no record, counters as before
C4_Witness ==
    \E s \in SaleIds :
        /\ sale_status[s] = "rolled_back"
        /\ RecordsOfSale(s) = {}
        /\ branches[SaleBranch(s)] = InitBranches[SaleBranch(s)]
        /\ row_lock[SaleBranch(s)] = NoProc

\* C5: a DC sequence above the initial value and at or below DC_Last_Number is
\* carried by a SalesRecord of the branch, and every SalesRecord of the branch
\* carries such a sequence.
C5_ConsumedIffRecord ==
    \A b \in Branches :
        LET consumed == (InitBranches[b].DC_Last_Number + 1)..branches[b].DC_Last_Number
        IN  /\ \A k \in consumed :
                  \E i \in RecordsOf(b) : sales_records[i].DC_Number = FormatDC(k)
            /\ \A i \in RecordsOf(b) :
                  \E k \in consumed : sales_records[i].DC_Number = FormatDC(k)

\* a committed record while another finalization of the branch is in flight
C5_Witness ==
    \E b \in Branches :
        /\ RecordsOf(b) # {}
        /\ branches[b].DC_Last_Number > InitBranches[b].DC_Last_Number
        /\ \E t \in Terminals : term[t].pc = "locked" /\ TermBranch(t) = b

\* C6: in every quiescent state each SalesRecord has exactly one inventory log entry
\* (direct finalization is all-or-nothing across record and log entry).
C6_RecordHasLogEntry ==
    Quiescent =>
        \A i \in DOMAIN sales_records :
            sales_records[i].request = 0
                => Cardinality(LogEntriesOf(sales_records[i])) = 1

\* C7: a sale has at most one SalesRecord, none while its last attempt is reported
\* failed, and exactly one once its finalization is reported done.
C7_RetrySafe ==
    \A s \in SaleIds :
        /\ Cardinality(RecordsOfSale(s)) <= 1
        /\ sale_status[s] = "done" => Cardinality(RecordsOfSale(s)) = 1

\* C8: a step that adds an ApprovalRequest adds exactly one, with status Pending
\* and an over-limit discount, and changes no branch counter, SalesRecord or
\* inventory log entry.
C8_SubmitTouchesNothing ==
    [][Len(approval_requests') > Len(approval_requests)
          => /\ Len(approval_requests') = Len(approval_requests) + 1
             /\ approval_requests'[Len(approval_requests')].Status = "Pending"
             /\ approval_requests'[Len(approval_requests')].Discount_Requested
                    > APPROVAL_LIMIT
             /\ branches' = branches
             /\ row_lock' = row_lock
             /\ sales_records' = sales_records
             /\ inventory_transactions' = inventory_transactions]_vars

\* a Pending request exists and nothing else has happened to the branch
C8_Witness ==
    /\ \E r \in DOMAIN approval_requests : approval_requests[r].Status = "Pending"
    /\ branches = InitBranches
    /\ sales_records = <<>>
    /\ inventory_transactions = <<>>

\* C9: only discounts strictly above the limit are routed to approval; a sale at or
\* below the limit is finalized directly and never submitted, and nothing over the
\* limit runs or commits on the direct path.
C9_StrictThreshold ==
    /\ \A r \in DOMAIN approval_requests :
          approval_requests[r].Discount_Requested > APPROVAL_LIMIT
    /\ \A s \in SaleIds :
          SaleDiscount(s) <= APPROVAL_LIMIT => sale_status[s] # "submitted"
    /\ \A t \in Terminals :
          term[t].path = "direct" => SaleDiscount(term[t].sale) <= APPROVAL_LIMIT
    /\ \A i \in DOMAIN sales_records :
          sales_records[i].request = 0 => sales_records[i].Discount_Given <= APPROVAL_LIMIT

\* a sale discounted by exactly the limit got its DC number directly, while a sale
\* one paisa above it sits in an ApprovalRequest
C9_Witness ==
    /\ \E i \in DOMAIN sales_records :
          /\ sales_records[i].request = 0
          /\ sales_records[i].Discount_Given = APPROVAL_LIMIT
    /\ \E r \in DOMAIN approval_requests :
          approval_requests[r].Discount_Requested = APPROVAL_LIMIT + 1

\* C10: the resume path takes its numbers and commits them only while the request
\* is Approved, and an owner's decision changes no branch counter and no record.
C10_NoAllocationUnlessApproved ==
    [][/\ \A t \in Terminals :
             (/\ term[t].path = "resume"
              /\ \/ term[t].pc = "begun" /\ term'[t].pc = "locked"
                 \/ term[t].pc = "locked" /\ term'[t].pc = "created")
                 => approval_requests[term[t].req].Status = "Approved"
       /\ (\E o \in DOMAIN owner : owner[o] # 0 /\ owner'[o] = 0)
             => /\ branches' = branches
                /\ sales_records' = sales_records]_vars

RecordsOfRequest(r) == {i \in DOMAIN sales_records : sales_records[i].request = r}

\* C11: an ApprovalRequest is finalized at most once: it never has more than one
\* SalesRecord (one DC number), a Completed request has exactly one, and no
\* finalization holds freshly allocated numbers for a request that already has its
\* record.
C11_ResumeIdempotent ==
    \A r \in DOMAIN approval_requests :
        /\ Cardinality(RecordsOfRequest(r)) <= 1
        /\ approval_requests[r].Status = "Completed"
              => Cardinality(RecordsOfRequest(r)) = 1
        /\ \A t \in Terminals :
              (term[t].path = "resume" /\ term[t].req = r /\ term[t].pc = "locked")
                  => RecordsOfRequest(r) = {}

\* C12: the status of an ApprovalRequest changes only along Pending -> Approved,
\* Pending -> Rejected and Approved -> Completed.
C12_StatusTransitions ==
    [][\A r \in DOMAIN approval_requests :
          approval_requests'[r].Status # approval_requests[r].Status
              => <<approval_requests[r].Status, approval_requests'[r].Status>>
                    \in {<<"Pending", "Approved">>, <<"Pending", "Rejected">>,
                         <<"Approved", "Completed">>}]_vars

\* C13: for a firm found in firm_master, the sequence allocated for slot 1 or 2 is
\* the slot floor (1000 / 2000) when the stored last-used value is below the floor
\* and last-used + 1 otherwise, and the invoice string carries that sequence.
C13_SlotFloor ==
    (/\ calc.op = "generate_accessory_invoice_number"
     /\ calc.done
     /\ calc.firm_id \in DOMAIN FirmMaster
     /\ calc.accessory_slot \in {1, 2})
        => LET stored == IF calc.accessory_slot = 1
                         THEN calc.branch.Acc_Inv_1_Last_Number
                         ELSE calc.branch.Acc_Inv_2_Last_Number
               floor == IF calc.accessory_slot = 1 THEN 1000 ELSE 2000
           IN  /\ calc.result[2] = IF stored < floor THEN floor ELSE stored + 1
               /\ calc.result[1]
                     = FirmMaster[calc.firm_id] \o "-" \o Decimal(calc.result[2])

\* a branch with Acc_Inv_2_Last_Number = 0 was given 2000 as its first slot-2 sequence
C13_Witness ==
    /\ calc.op = "generate_accessory_invoice_number"
    /\ calc.done
    /\ calc.accessory_slot = 2
    /\ calc.branch.Acc_Inv_2_Last_Number = 0
    /\ calc.result = <<"KA-2000", 2000>>

\* the input items of one slot with a unit price above zero, in input order
Billable(accessory_list, slot) ==
    SelectSeq(accessory_list, LAMBDA item : item.firm_slot = slot /\ item.price > 0)

RECURSIVE PriceUpTo(_, _)
PriceUpTo(items, n) == IF n = 0 THEN 0 ELSE items[n].price + PriceUpTo(items, n - 1)

SplitDone == calc.op = "process_accessories_and_split" /\ calc.done

\* C18: every bill the splitter returns for slot s lists exactly the input items of
\* slot s priced above zero, in input order, its subtotal is the sum of their
\* prices and its grand total is subtotal + subtotal * tax rate; no line of any
\* bill has a price <= 0.
C18_BillContents ==
    SplitDone =>
        \A k \in DOMAIN calc.result :
            LET bill == calc.result[k]
                expected == Billable(calc.accessory_list, bill.accessory_slot)
            IN  /\ Len(bill.accessories) = Len(expected)
                /\ \A i \in DOMAIN expected :
                      bill.accessories[i] = [name |-> expected[i].name, qty |-> 1,
                                             price |-> expected[i].price,
                                             total |-> expected[i].price]
                /\ bill.subtotal = PriceUpTo(expected, Len(expected))
                /\ bill.grand_total = bill.subtotal + bill.subtotal * GST_RATE_CALC
                /\ \A i \in DOMAIN bill.accessories : bill.accessories[i].price > 0

\* two bills were returned for a list that mixes both slots and holds a free and a
\* negatively priced item
C18_Witness ==
    /\ SplitDone
    /\ Len(calc.result) = 2
    /\ Len(calc.accessory_list) = 3
    /\ \E i, j \in DOMAIN calc.accessory_list :
          calc.accessory_list[i].price > 0 /\ calc.accessory_list[j].price <= 0

\* C19: the splitter returns a bill for slot s exactly when the branch has a firm
\* assigned to slot s, the firm has a firm_master row and the slot's total is above
\* zero; at most one bill per slot, billed to the slot's firm; a branch without a
\* second firm gets no slot-2 bill.
C19_BillPerAssignedFirm ==
    SplitDone =>
        \A slot \in {1, 2} :
            LET firm_id == IF slot = 1 THEN calc.branch.Firm_ID_1 ELSE calc.branch.Firm_ID_2
                bills == {k \in DOMAIN calc.result : calc.result[k].accessory_slot = slot}
                items == Billable(calc.accessory_list, slot)
                total == PriceUpTo(items, Len(items))
            IN  /\ Cardinality(bills) <= 1
                /\ bills # {} <=> (/\ firm_id # 0
                                   /\ firm_id \in DOMAIN FirmMaster
                                   /\ total + total * GST_RATE_CALC > 0)
                /\ \A k \in bills : calc.result[k].firm_id = firm_id
                /\ Len(calc.result) = Cardinality({k \in DOMAIN calc.result :
                                                     calc.result[k].accessory_slot \in {1, 2}})

\* a branch with only Firm_ID_1 set was given priced items of both slots and got
\* the slot-1 bill alone
C19_Witness ==
    /\ SplitDone
    /\ calc.branch.Firm_ID_1 = 1
    /\ calc.branch.Firm_ID_2 = 0
    /\ Billable(calc.accessory_list, 1) # <<>>
    /\ Billable(calc.accessory_list, 2) # <<>>
    /\ Len(calc.result) = 1
    /\ calc.result[1].accessory_slot = 1

\* C20: calculate_finance_fees returns (HP_FEE_DEFAULT, 0) when out_finance_flag is
\* set, whoever the financier; else (HP_FEE_BANK_QUOTATION, 0) for "Bank"; else
\* HP_FEE_DEFAULT with dd_amount * value for a percentage_dd rule, value for a
\* fixed_file rule and 0 for a financier without a rule.
C20_FinanceFees ==
    (calc.op = "calculate_finance_fees" /\ calc.done) =>
        LET name == calc.financier_name
            rules == calc.incentive_rules
        IN  IF calc.out_finance_flag THEN calc.result = <<HP_FEE_DEFAULT, 0>>
            ELSE IF name = "Bank" THEN calc.result = <<HP_FEE_BANK_QUOTATION, 0>>
            ELSE /\ calc.result[1] = HP_FEE_DEFAULT
                 /\ name \notin DOMAIN rules => calc.result[2] = 0
                 /\ (name \in DOMAIN rules /\ rules[name].type = "percentage_dd")
                       => calc.result[2] = calc.dd_amount * rules[name].value
                 /\ (name \in DOMAIN rules /\ rules[name].type = "fixed_file")
                       => calc.result[2] = rules[name].value

\* an out-finance sale through "Bank", with a rule configured for it, was charged
\* the default fee and earned no incentive
C20_Witness ==
    /\ calc.op = "calculate_finance_fees"
    /\ calc.done
    /\ calc.out_finance_flag
    /\ calc.financier_name = "Bank"
    /\ "Bank" \in DOMAIN calc.incentive_rules
    /\ calc.result = <<HP_FEE_DEFAULT, 0>>

\* C14: the slot-1 and the slot-2 invoice sequence numbers a branch has issued are
\* disjoint sets.
C14_SlotRangesDisjoint ==
    \A b \in Branches :
        ({sales_records[i].Acc_Inv_1_No : i \in RecordsOf(b)} \ {0})
            \cap ({sales_records[i].Acc_Inv_2_No : i \in RecordsOf(b)} \ {0}) = {}

Counters ==
    {"DC_Last_Number", "Acc_Inv_1_Last_Number", "Acc_Inv_2_Last_Number",
     "Receipt_Last_Number", "Voucher_Last_Number", "Branch_Receipt_Last_Number",
     "Job_Card_Last_Number", "Out_Bill_Last_Number"}

CashierCounters ==
    {"Receipt_Last_Number", "Voucher_Last_Number", "Branch_Receipt_Last_Number",
     "Job_Card_Last_Number", "Out_Bill_Last_Number"}

\* the number a cashier_log row carries, 0 for none
RowNumber(row) ==
    IF row.transaction_type = "Voucher" THEN row.voucher_number ELSE row.receipt_number

\* a step that commits a SalesRecord raises the DC counter of its branch by one, and
\* a step that commits a numbered cashier row raises the row's counter by one
AllocationsAdvance ==
    /\ Len(sales_records') > Len(sales_records)
          => LET rec == sales_records'[Len(sales_records')]
             IN  branches'[rec.Branch_ID].DC_Last_Number
                    = branches[rec.Branch_ID].DC_Last_Number + 1
    /\ Len(cashier_log') > Len(cashier_log)
          => LET row == cashier_log'[Len(cashier_log')]
                 k == CounterOf(row.transaction_type, row.category)
             IN  RowNumber(row) # 0
                    => /\ branches'[row.branch_id][k] = branches[row.branch_id][k] + 1
                       /\ RowNumber(row) = branches'[row.branch_id][k]

ProcBranch(p) == IF p \in Terminals THEN TermBranch(p) ELSE cashier[p].branch_id

InLockedPhase(p) == IF p \in Terminals THEN term[p].pc = "locked" ELSE cashier[p].pc = "locked"

\* C16: a locking read waits only for its own branch row: a finalization whose
\* branch row is free gets it whoever holds other rows, and a finalization gives
\* up waiting only when its own row is held by someone else; a step of a process
\* that holds the row of branch A changes no counter, SalesRecord or cashier row of
\* any other branch.
C16_BranchesIndependent ==
    [][/\ \A t \in Terminals :
             /\ (term[t].pc = "begun" /\ row_lock[TermBranch(t)] = NoProc)
                   => LockAvailable(TermBranch(t), t)
             /\ (term[t].pc = "begun" /\ term'[t].pc = "idle")
                   => row_lock[TermBranch(t)] \notin {NoProc, t}
       /\ \A p \in Terminals \cup Cashiers, a \in Branches :
             (/\ row_lock[a] = p
              /\ IF p \in Terminals THEN term'[p] # term[p] ELSE cashier'[p] # cashier[p])
                 => \A b \in Branches \ {a} :
                       /\ branches'[b] = branches[b]
                       /\ \A i \in DOMAIN sales_records' :
                             sales_records'[i].Branch_ID = b
                                => i \in DOMAIN sales_records
                                   /\ sales_records'[i] = sales_records[i]
                       /\ \A i \in DOMAIN cashier_log' :
                             cashier_log'[i].branch_id = b
                                => i \in DOMAIN cashier_log
                                   /\ cashier_log'[i] = cashier_log[i]]_vars

\* a finalization holds the row of BR1 while a cashier entry holds the row of BR2,
\* and the other cashier has committed at BR2 meanwhile
C16_Witness ==
    /\ \E t \in Terminals : row_lock["BR1"] = t /\ term[t].pc = "locked"
    /\ \E c \in Cashiers : row_lock["BR2"] = c /\ cashier[c].pc = "locked"
    /\ \E i \in DOMAIN cashier_log :
          cashier_log[i].branch_id = "BR2" /\ RowNumber(cashier_log[i]) # 0

\* the numbered cashier rows of a branch entered on one counter
NumberedRows(b, k) ==
    {i \in DOMAIN cashier_log :
        /\ i > Len(InitCashierLog)
        /\ cashier_log[i].branch_id = b
        /\ RowNumber(cashier_log[i]) # 0
        /\ CounterOf(cashier_log[i].transaction_type, cashier_log[i].category) = k}

\* C17: no two processes are between locking read and commit on the same branch
\* row, each such process holds that row, and no update is lost: the DC counter
\* counts the committed SalesRecords and every cashier counter counts the numbered
\* rows committed on it, which carry the numbers last+1 .. last+n; the accessory
\* counters stand at the last sequence issued.
C17_SerializedCounters ==
    /\ \A p, q \in Terminals \cup Cashiers :
          (p # q /\ InLockedPhase(p) /\ InLockedPhase(q)) => ProcBranch(p) # ProcBranch(q)
    /\ \A p \in Terminals \cup Cashiers :
          InLockedPhase(p) => row_lock[ProcBranch(p)] = p
    /\ \A b \in Branches :
          /\ branches[b].DC_Last_Number
                = InitBranches[b].DC_Last_Number + Cardinality(RecordsOf(b))
          /\ \A i \in RecordsOf(b) :
                /\ sales_records[i].Acc_Inv_1_No <= branches[b].Acc_Inv_1_Last_Number
                /\ sales_records[i].Acc_Inv_2_No <= branches[b].Acc_Inv_2_Last_Number
          /\ \A k \in CashierCounters :
                /\ branches[b][k] = InitBranches[b][k] + Cardinality(NumberedRows(b, k))
                /\ {RowNumber(cashier_log[i]) : i \in NumberedRows(b, k)}
                      = (InitBranches[b][k] + 1)..branches[b][k]

\* a finalization of BR1 waits for the row while a cashier entry holds it, after the
\* other cashier has committed a receipt number at BR1
C17_Witness ==
    /\ \E t \in Terminals : term[t].pc = "begun" /\ TermBranch(t) = "BR1"
    /\ \E c \in Cashiers : row_lock["BR1"] = c /\ cashier[c].pc = "locked"
    /\ NumberedRows("BR1", "Receipt_Last_Number") # {}

\* C21: after set_finance_details, remaining_finance_amount is
\* max(0, (final_cost + hp_fee + incentive) - dd_amount - down_payment) and so is
\* never negative.
C21_RemainingFloored ==
    (calc.op = "set_finance_details" /\ calc.done) =>
        LET due == (calc.final_cost + calc.hp_fee + calc.incentive_earned)
                       - calc.dd_amount - calc.down_payment
        IN  /\ calc.result = IF due > 0 THEN due ELSE 0
            /\ calc.result >= 0

\* the rows the claim counts: of the branch, dated strictly before the date, of the
\* mode or of one of the modes asked for (every mode when none is asked for)
CountedRows(call) ==
    {i \in 1..Len(call.table) :
        /\ call.table[i].branch_id = call.branch_id
        /\ call.table[i].date < call.target_date
        /\ \/ call.mode = NoMode
           \/ \E k \in 1..Len(call.mode) : call.table[i].payment_mode = call.mode[k]}

RECURSIVE SumAmounts(_, _)
SumAmounts(table, rows) ==
    IF rows = {} THEN 0
    ELSE LET i == CHOOSE x \in rows : TRUE
         IN  table[i].amount + SumAmounts(table, rows \ {i})

\* C29: the opening balance is the sum of the receipts minus the sum of the vouchers
\* over the branch's rows dated strictly before the date and matching the mode(s),
\* and 0 when no row qualifies.
C29_OpeningBalance ==
    (calc.op = "get_opening_balance" /\ calc.done) =>
        LET rows == CountedRows(calc)
            receipts == {i \in rows : calc.table[i].transaction_type = "Receipt"}
            vouchers == {i \in rows : calc.table[i].transaction_type = "Voucher"}
        IN  /\ calc.result = SumAmounts(calc.table, receipts) - SumAmounts(calc.table, vouchers)
            /\ rows = {} => calc.result = 0

\* a list of modes was asked for; one earlier voucher counts, a row of the target
\* date does not, and the balance is negative
C29_Witness ==
    /\ calc.op = "get_opening_balance" /\ calc.done
    /\ Len(calc.mode) = 2
    /\ Len(calc.table) = 2
    /\ Cardinality(CountedRows(calc)) = 1
    /\ \E i \in 1..2 : calc.table[i].branch_id = calc.branch_id
                          /\ calc.table[i].date = calc.target_date
                          /\ calc.table[i].payment_mode = "Card"
    /\ calc.result = 0 - 250 * 100

\* C22: every stored cashier row of type Receipt has is_expense = FALSE, whether
\* add_transaction created it from an entry flagged as an expense or
\* import_transactions copied it.
C22_ReceiptsNeverExpense ==
    \A i \in DOMAIN cashier_log :
        cashier_log[i].transaction_type = "Receipt" => ~cashier_log[i].is_expense

\* a receipt entered flagged as an expense is stored, and so is an imported copy of it
C22_Witness ==
    /\ \E i \in DOMAIN cashier_log : cashier_log[i].category = "Vehicle Sale"
    /\ \E i \in DOMAIN cashier_log :
          /\ cashier_log[i].category = "Imported: Vehicle Sale"
          /\ cashier_log[i].imported_from_id # 0

\* the counter the claim assigns to an entry
ClaimedCounter(transaction_type, category) ==
    IF transaction_type = "Voucher" THEN "Voucher_Last_Number"
    ELSE IF category = "Branch Receipt" THEN "Branch_Receipt_Last_Number"
    ELSE IF category = "Job Card Sale" THEN "Job_Card_Last_Number"
    ELSE IF category = "Out Bill Sale" THEN "Out_Bill_Last_Number"
    ELSE "Receipt_Last_Number"

\* C23: a numbered add_transaction raises exactly the counter of its type and
\* category (any Voucher: the voucher counter), stores the raised value as the
\* row's receipt or voucher number and leaves the branch's other seven counters alone.
C23_OneCounterPerEntry ==
    [][\A c \in Cashiers :
          (cashier[c].pc = "locked" /\ cashier'[c].pc = "idle"
              /\ Len(cashier_log') = Len(cashier_log) + 1)
          => LET b == cashier[c].branch_id
                 row == cashier_log'[Len(cashier_log')]
                 used == ClaimedCounter(cashier[c].transaction_type, cashier[c].category)
             IN  /\ row.branch_id = b
                 /\ branches'[b][used] = branches[b][used] + 1
                 /\ RowNumber(row) = branches'[b][used]
                 /\ (IF row.transaction_type = "Voucher"
                     THEN row.receipt_number ELSE row.voucher_number) = 0
                 /\ \A k \in Counters \ {used} : branches'[b][k] = branches[b][k]
                 /\ \A o \in Branches \ {b} : branches'[o] = branches[o]]_vars

\* BR2 has stored a job card and a voucher entered under a receipt category with
\* the generate flag unset: the voucher took voucher number 1 and the branch-receipt
\* counter was not used
C23_Witness ==
    /\ branches["BR2"].Job_Card_Last_Number = 1
    /\ branches["BR2"].Voucher_Last_Number = 1
    /\ branches["BR2"].Branch_Receipt_Last_Number = 0
    /\ \E i \in DOMAIN cashier_log :
          /\ cashier_log[i].branch_id = "BR2"
          /\ cashier_log[i].transaction_type = "Voucher"
          /\ cashier_log[i].category = "Branch Receipt"
          /\ cashier_log[i].voucher_number = 1

\* row t has been imported into branch b
ImportedInto(table, t, b) ==
    \E i \in DOMAIN table : table[i].branch_id = b /\ table[i].imported_from_id = t

\* C24: once a transaction of a source branch has been imported into a branch,
\* get_remote_branch_transactions never offers it to that branch again.
C24_ImportedNotOfferedAgain ==
    [][/\ \A c \in Cashiers :
            (cashier[c].pc = "importing" /\ cashier'[c].pc = "idle"
                /\ Len(cashier_log') > Len(cashier_log))
            => \A t \in cashier[c].transaction_ids, d \in SourceDates :
                  t \notin get_remote_branch_transactions(
                               cashier_log', cashier_log[t].branch_id,
                               cashier[c].branch_id, d)
       /\ \A t \in DOMAIN cashier_log, b \in Branches, d \in SourceDates :
            ImportedInto(cashier_log, t, b)
            => t \notin get_remote_branch_transactions(
                            cashier_log', cashier_log[t].branch_id, b, d)]_vars

\* BR2 has imported row 1 of BR1 and is still offered another row of BR1 of the
\* same date, but not row 1
C24_Witness ==
    /\ ImportedInto(cashier_log, 1, "BR2")
    /\ 1 \notin get_remote_branch_transactions(cashier_log, "BR1", "BR2", 1)
    /\ get_remote_branch_transactions(cashier_log, "BR1", "BR2", 1) # {}

\* C26: an allocation for a branch id that has no branch row is fatal: the sales
\* finalization and the numbered add_transaction both fail, and no SalesRecord and
\* no CashierTransaction is created for that branch.
C26_MissingBranchIsFatal ==
    /\ \A i \in DOMAIN sales_records : sales_records[i].Branch_ID \in DOMAIN branches
    /\ \A i \in DOMAIN cashier_log : cashier_log[i].branch_id \in DOMAIN branches
    /\ \A t \in Terminals :
          term[t].pc \notin {"idle", "begun"} => TermBranch(t) \in DOMAIN branches
    /\ \A c \in Cashiers :
          cashier[c].pc = "locked" => cashier[c].branch_id \in DOMAIN branches
    /\ \A s \in SaleIds :
          SaleBranch(s) \notin DOMAIN branches => sale_status[s] \in {"draft", "rolled_back"}

\* C25: when the firm of a bill's slot is not found at the invoice-number allocation,
\* the finalization fails as a whole: no SalesRecord is committed and no challan is
\* handed out for an order one of whose bills got no invoice sequence.
C25_MissingFirmIsFatal ==
    /\ \A t \in Terminals :
          term[t].pc \in {"created", "linked"}
          => \A i \in DOMAIN term[t].accessory_bills :
                term[t].accessory_bills[i].Acc_Inv_Seq # 0
    /\ \A k \in DOMAIN pdf_challans :
          \A i \in DOMAIN pdf_challans[k].accessory_bills :
              pdf_challans[k].accessory_bills[i].Acc_Inv_Seq # 0

\* the challans handed out for the record a reprint was made of
ChallansOfReprint ==
    {k \in DOMAIN pdf_challans :
        /\ pdf_challans[k].Branch_ID = sales_records[calc.record_id].Branch_ID
        /\ pdf_challans[k].dc_number = sales_records[calc.record_id].DC_Number}

\* what identifies the bills of an order: slot, invoice string, sequence number
BillKeys(bills) ==
    [i \in DOMAIN bills |->
        <<bills[i].accessory_slot, bills[i].Invoice_No, bills[i].Acc_Inv_Seq>>]

\* C27: the order reconstructed from a SalesRecord has the DC number and the accessory
\* bills (slots, invoice strings, sequence numbers) of the original, even if the
\* accessory package was changed between the sale and the reprint.
C27_ReprintMatchesOriginal ==
    (calc.op = "reconstruct_sales_order" /\ calc.firms = FirmMaster)
    => \A k \in ChallansOfReprint :
          /\ calc.result.dc_number = pdf_challans[k].dc_number
          /\ BillKeys(calc.result.accessory_bills) = BillKeys(pdf_challans[k].accessory_bills)

\* C28: when the firm of a bill of the original challan no longer exists at the
\* reprint, the reconstruction completes and keeps the bill, with an error-tagged
\* invoice number.
C28_MissingFirmErrorTagged ==
    (calc.op = "reconstruct_sales_order" /\ calc.packages = AccessoryPackages)
    => /\ calc.done
       /\ \A k \in ChallansOfReprint :
             \A i \in DOMAIN pdf_challans[k].accessory_bills :
                 LET bill == pdf_challans[k].accessory_bills[i]
                 IN  (bill.Acc_Inv_Seq # 0 /\ bill.firm_id \notin DOMAIN calc.firms)
                     => \E j \in DOMAIN calc.result.accessory_bills :
                           /\ calc.result.accessory_bills[j].accessory_slot
                                  = bill.accessory_slot
                           /\ calc.result.accessory_bills[j].Invoice_No
                                  = "ERR-" \o Decimal(bill.Acc_Inv_Seq)

\* C31: at most one SalesRecord is ever created from an ApprovalRequest, in every
\* interleaving, and whenever no finalization is under way a request is Completed
\* exactly when its SalesRecord exists.
C31_OneRecordPerRequest ==
    \A r \in DOMAIN approval_requests :
        /\ Cardinality(RecordsOfRequest(r)) <= 1
        /\ Quiescent => (approval_requests[r].Status = "Completed"
                            <=> RecordsOfRequest(r) # {})

\* the numbers of the rows add_transaction has committed at a branch on one counter
SeriesNumbers(b, k) ==
    {RowNumber(cashier_log[i]) :
        i \in {j \in NumberedRows(b, k) : cashier_log[j].imported_from_id = 0}}

\* C32: however add_transaction calls on one branch and one number series interleave,
\* the committed rows of the series carry pairwise distinct numbers, the numbers are
\* the consecutive run initial + 1 .. initial + n for n committed rows, and the
\* counter of the series stands at initial + n.
C32_SeriesGapFree ==
    \A b \in Branches : \A k \in CashierCounters :
        LET rows == {j \in NumberedRows(b, k) : cashier_log[j].imported_from_id = 0}
            n == Cardinality(rows)
        IN  /\ \A i, j \in rows :
                  i # j => RowNumber(cashier_log[i]) # RowNumber(cashier_log[j])
            /\ SeriesNumbers(b, k) = (InitBranches[b][k] + 1)..(InitBranches[b][k] + n)
            /\ branches[b][k] = InitBranches[b][k] + n

\* a number of BR1's receipt series has been committed and a cashier holds the row
\* again with the following number of the same series
C32_Witness ==
    /\ Cardinality(SeriesNumbers("BR1", "Receipt_Last_Number")) >= 1
    /\ \E c \in Cashiers :
          /\ cashier[c].pc = "locked"
          /\ cashier[c].branch_id = "BR1"
          /\ CounterOf(cashier[c].transaction_type, cashier[c].category)
                = "Receipt_Last_Number"
          /\ cashier[c].next_num = branches["BR1"].Receipt_Last_Number + 1
          /\ cashier[c].next_num > InitBranches["BR1"].Receipt_Last_Number + 1

(* ---------------- scheduling: a request runs to completion or failure ---------------- *)

\* the steps of a finalization once its script run has started: the script runs on
\* to its end, through the except clause and the close of db_session if need be
FinalizationStep(t) ==
    \/ GetNextDcNumber(t)
    \/ LockWaitTimeout(t)
    \/ CreateSalesRecord(t)
    \/ CreateSalesRecordFails(t)
    \/ LinkBookingReceipts(t)
    \/ LinkBookingReceiptsFails(t)
    \/ LogSale(t)
    \/ LogSaleFails(t)

\* the steps of add_transaction after its locking read: commit, or rollback
AddTransactionStep(c) == AddTransactionCommit(c) \/ AddTransactionFails(c)

\* every started request keeps running, and a locking read that finds the row free
\* again and again is granted it (the lock queue of the row is served in order)
RunToCompletion ==
    /\ \A t \in Terminals : WF_vars(FinalizationStep(t)) /\ SF_vars(GetNextDcNumber(t))
    /\ \A c \in Cashiers : WF_vars(AddTransactionStep(c))

\* one sale form and the numbered cashier entries contend for the row of one branch
NextRunToCompletion ==
    \/ \E t \in Terminals, s \in DaybookSales : BeginDirect(t, s)
    \/ \E t \in Terminals : FinalizationStep(t)
    \/ \E c \in Cashiers, b \in {SaleBranch(s) : s \in DaybookSales} :
          \E e \in NumberedEntries(b) : AddTransactionLock(c, b, e)
    \/ \E c \in Cashiers : AddTransactionStep(c)

SpecRunToCompletion == Init /\ [][NextRunToCompletion]_vars /\ RunToCompletion

\* C33: every process that holds a branch row lock eventually gives it back, on the
\* commit path and on every failure path, and under fair scheduling every
\* finalization that waits for the row eventually gets through: it is granted the
\* lock and runs to completion, or it fails, and its terminal is idle again.
C33_LocksReleased ==
    /\ \A b \in Branches : \A p \in Terminals \cup Cashiers :
          (row_lock[b] = p) ~> (row_lock[b] # p)
    /\ \A t \in Terminals : (term[t].pc = "begun") ~> (term[t].pc = "idle")

\* a finalization waits for the row of BR1 while a cashier entry holds it
C33_Witness ==
    \E t \in Terminals, c \in Cashiers :
        /\ term[t].pc = "begun"
        /\ TermBranch(t) = "BR1"
        /\ row_lock["BR1"] = c
        /\ cashier[c].pc = "locked"

\* C34: when add_transaction fails after its locking read (the number was already
\* written to the branch row in the session), the step persists no CashierTransaction
\* and leaves every counter of every branch at its prior value, the row lock is given
\* back, and the number the failed call held is the one the next allocation on that
\* counter computes.
C34_FailedEntryLeavesNoTrace ==
    [][\A c \in Cashiers :
          (/\ cashier[c].pc = "locked"
           /\ cashier'[c].pc = "idle"
           /\ failures' > failures)
          => LET b == cashier[c].branch_id
                 k == CounterOf(cashier[c].transaction_type, cashier[c].category)
             IN  /\ cashier_log' = cashier_log
                 /\ branches' = branches
                 /\ row_lock'[b] # c
                 /\ NextNumber(branches'[b], k) = cashier[c].next_num]_vars

\* an add_transaction call has failed (no sale has), no numbered row has been
\* committed since, and a cashier holds the row of BR1 with the first number of a
\* series
C34_Witness ==
    /\ failures > 0
    /\ \A s \in SaleIds : sale_status[s] \in {"draft", "done"}
    /\ \A b \in Branches : \A k \in CashierCounters : NumberedRows(b, k) = {}
    /\ \E c \in Cashiers :
          /\ cashier[c].pc = "locked"
          /\ cashier[c].branch_id = "BR1"
          /\ cashier[c].next_num
                = InitBranches["BR1"][CounterOf(cashier[c].transaction_type,
                                               cashier[c].category)] + 1

\* C35: within one target branch no two CashierTransactions carry the same
\* imported_from_id, also when two import passes for the same source rows run at
\* the same time or an import is submitted from a candidate list fetched earlier.
C35_ImportedOnce ==
    \A i, j \in DOMAIN cashier_log :
        (/\ i # j
         /\ cashier_log[i].imported_from_id # 0
         /\ cashier_log[i].branch_id = cashier_log[j].branch_id)
        => cashier_log[i].imported_from_id # cashier_log[j].imported_from_id

\* the sequence number a SalesRecord stores for a slot
StoredSeq(record, slot) == IF slot = 1 THEN record.Acc_Inv_1_No ELSE record.Acc_Inv_2_No

\* C36: a reprint allocates nothing: the step that reconstructs an order changes no
\* branch counter and no SalesRecord, and every accessory bill of the reconstructed
\* order carries the sequence number the record stores for the bill's slot
\* (Acc_Inv_1_No for slot 1, Acc_Inv_2_No for slot 2), in its Acc_Inv_Seq and at the
\* end of its invoice string, whatever the branch's counters are by then.
C36_ReprintNeverAllocates ==
    [][(calc' # calc /\ calc'.op = "reconstruct_sales_order")
       => /\ branches' = branches
          /\ sales_records' = sales_records
          /\ \A i \in DOMAIN calc'.result.accessory_bills :
                LET bill == calc'.result.accessory_bills[i]
                    seq_no == StoredSeq(sales_records[calc'.record_id], bill.accessory_slot)
                    tail == Decimal(seq_no)
                IN  /\ bill.Acc_Inv_Seq = seq_no
                    /\ Len(bill.Invoice_No) > Len(tail)
                    /\ SubSeq(bill.Invoice_No, Len(bill.Invoice_No) - Len(tail) + 1,
                              Len(bill.Invoice_No)) = tail]_vars

\* a record is reprinted after a later finalization has moved the branch's slot-1
\* counter past the number the record stores
C36_Witness ==
    /\ calc.op = "reconstruct_sales_order"
    /\ LET record == sales_records[calc.record_id]
       IN  /\ record.Acc_Inv_1_No # 0
           /\ branches[record.Branch_ID].Acc_Inv_1_Last_Number > record.Acc_Inv_1_No
           /\ \E i \in DOMAIN calc.result.accessory_bills :
                 /\ calc.result.accessory_bills[i].accessory_slot = 1
                 /\ calc.result.accessory_bills[i].Acc_Inv_Seq = record.Acc_Inv_1_No

\* the payload fields that resume-and-finalize replaces; request is the link from a
\* record to the ApprovalRequest it was created from
ReplacedFields == {"DC_Number", "Acc_Inv_1_No", "Acc_Inv_2_No", "request"}

\* C37: the SalesRecord that resume-and-finalize commits equals the payload stored in
\* its ApprovalRequest in every field except the DC number and the two accessory
\* invoice sequence numbers, which are the values allocated under the row lock in
\* this finalization (the timestamp is not modelled); the placeholder DC number and
\* the zero DC sequence of the payload are not stored in the record or written to
\* the branch counter.
C37_ResumeKeepsPayload ==
    [][\A t \in Terminals :
          (/\ term[t].path = "resume"
           /\ term[t].pc = "locked"
           /\ term'[t].pc = "created")
          => LET payload == approval_requests[term[t].req].Order_JSON
                 record == sales_records'[Len(sales_records')]
                 b == TermBranch(t)
             IN  /\ Len(sales_records') = Len(sales_records) + 1
                 /\ DOMAIN record = DOMAIN payload
                 /\ \A f \in DOMAIN payload \ ReplacedFields : record[f] = payload[f]
                 /\ record.DC_Number = FormatDC(branches[b].DC_Last_Number + 1)
                 /\ record.DC_Number # payload.DC_Number
                 /\ record.Acc_Inv_1_No = term[t].bill_1_seq
                 /\ record.Acc_Inv_2_No = term[t].bill_2_seq
                 /\ branches'[b].DC_Last_Number = branches[b].DC_Last_Number + 1
                 /\ branches'[b].DC_Last_Number # 0]_vars

\* the over-limit sale of BR1 has been finalized from its approved request: its
\* record carries the frozen discount and the allocated numbers
C37_Witness ==
    \E i \in DOMAIN sales_records :
        /\ sales_records[i].request # 0
        /\ sales_records[i].Discount_Given = APPROVAL_LIMIT + 1
        /\ sales_records[i].DC_Number = "DC-0006"
        /\ sales_records[i].Acc_Inv_1_No = 1000
        /\ sales_records[i].Acc_Inv_2_No = 2000

\* C38: a step that persists a Receipt without a number (generation skipped) stores
\* the row with an empty receipt_number, takes no branch row lock and leaves every
\* counter of every branch as it was, so the next numbered receipt of any series is
\* computed from the same counter as before; the step does not wait for a held row.
C38_SkippedNumberIsFrameOnly ==
    [][(/\ Len(cashier_log') = Len(cashier_log) + 1
        /\ cashier_log'[Len(cashier_log')].transaction_type = "Receipt"
        /\ cashier_log'[Len(cashier_log')].receipt_number = 0)
       => LET row == cashier_log'[Len(cashier_log')]
          IN  /\ row.voucher_number = 0
              /\ branches' = branches
              /\ row_lock' = row_lock
              /\ \A c \in Cashiers : cashier'[c].pc # "locked" \/ cashier[c].pc = "locked"
              /\ \A k \in CashierCounters :
                    NextNumber(branches'[row.branch_id], k)
                        = NextNumber(branches[row.branch_id], k)]_vars

\* at BR2 a receipt was stored without a number and a receipt committed later got
\* the first number of the generic series
C38_Witness ==
    \E i, j \in DOMAIN cashier_log :
        /\ i < j
        /\ cashier_log[i].branch_id = "BR2" /\ cashier_log[j].branch_id = "BR2"
        /\ cashier_log[i].transaction_type = "Receipt"
        /\ cashier_log[i].receipt_number = 0
        /\ cashier_log[j].transaction_type = "Receipt"
        /\ CounterOf("Receipt", cashier_log[j].category) = "Receipt_Last_Number"
        /\ cashier_log[j].receipt_number = InitBranches["BR2"].Receipt_Last_Number + 1

\* ---- back office: DD payment recovery and insurance / TR tracking ----

\* None, the default of the two optional amounts of update_dd_payment
NoAmount == 0 - 1

\* the SalesRecord columns that get_data_for_export does not set hold their column
\* defaults after the insert: Payment_Shortfall 0.0, shortfall_received 0.0,
\* is_insurance_done, is_tr_done and has_dues False
ColumnDefaults ==
    [Payment_Shortfall |-> 0, shortfall_received |-> 0,
     is_insurance_done |-> FALSE, is_tr_done |-> FALSE, has_dues |-> FALSE]

\* the value of a column of a stored record
Column(record, key) == IF key \in DOMAIN record THEN record[key] ELSE ColumnDefaults[key]

\* variant: the shortfall is computed from the initial payment alone
update_dd_payment_IgnoresRecovery(record, new_initial_dd, new_shortfall_rec) ==
    LET initial == IF new_initial_dd # NoAmount THEN new_initial_dd
                   ELSE Column(record, "Payment_DD_Received")
        recovery == IF new_shortfall_rec # NoAmount THEN new_shortfall_rec
                    ELSE Column(record, "shortfall_received")
        expected == Column(record, "Payment_DD")
        new_shortfall == expected - initial
    IN  [Payment_DD_Received |-> initial, shortfall_received |-> recovery,
         Payment_Shortfall |-> new_shortfall, has_dues |-> new_shortfall > 0]
        @@ record

\* update_dd_payment on the record it found: the amounts that are given replace the
\* stored ones, the shortfall and the dues flag are recomputed from the three amounts
update_dd_payment(record, new_initial_dd, new_shortfall_rec) ==
    LET initial == IF new_initial_dd # NoAmount THEN new_initial_dd
                   ELSE Column(record, "Payment_DD_Received")
        recovery == IF new_shortfall_rec # NoAmount THEN new_shortfall_rec
                    ELSE Column(record, "shortfall_received")
        total_received == initial + recovery
        expected == Column(record, "Payment_DD")
        new_shortfall == expected - total_received
    IN  [Payment_DD_Received |-> initial, shortfall_received |-> recovery,
         Payment_Shortfall |-> new_shortfall, has_dues |-> new_shortfall > 0]
        @@ record

\* the keys update_insurance_tr_status never writes
ignore_keys == {"has_dues"}

\* update_insurance_tr_status on the record it found: every key of the changes that
\* is not ignored is set on the record
update_insurance_tr_status(record, updates) ==
    [key \in DOMAIN updates \ ignore_keys |-> updates[key]] @@ record

\* the amounts the dues forms send: nothing, zero, a third and two thirds of the DD
\* of a financed sale, so that two of them fall short of it, meet it or exceed it
DdAmounts == {NoAmount, 0, 10000 * 100, 20000 * 100}

\* the columns of the insurance / TR data editor that the model follows; the editor
\* disables id, DC_Number, Customer_Name, Model, chassis_no, engine_no, the phone
\* numbers and has_dues, so no change it reports carries the DC number
EditableColumns == {"is_insurance_done", "is_tr_done"}

\* the changes handed to update_insurance_tr_status for one row: a value for each
\* edited column, and possibly a value for has_dues, the key the function is written
\* to skip
EditorChanges ==
    UNION {[keys -> BOOLEAN] : keys \in (SUBSET (EditableColumns \cup ignore_keys)) \ {{}}}

\* the dues forms: update_dd_payment looks the record up, writes the amounts, the
\* shortfall and the dues flag, and commits; an unknown id returns without a write,
\* a failed commit is rolled back and leaves the row as it was
UpdateDdPayment(record_id, new_initial_dd, new_shortfall_rec) ==
    /\ record_id \in DOMAIN sales_records
    /\ new_initial_dd # NoAmount \/ new_shortfall_rec # NoAmount
    /\ sales_records' = [sales_records EXCEPT ![record_id] =
                            update_dd_payment(@, new_initial_dd, new_shortfall_rec)]
    /\ UNCHANGED <<branches, row_lock, term, inventory_transactions,
                   approval_requests, cashier_log, owner, sale_status, failures,
                   cashier, calc,
                   firm_master, accessory_packages, pdf_challans>>

\* the insurance / TR editor: one update_insurance_tr_status per edited row
UpdateInsuranceTrStatus(record_id, updates) ==
    /\ record_id \in DOMAIN sales_records
    /\ sales_records' = [sales_records EXCEPT ![record_id] =
                            update_insurance_tr_status(@, updates)]
    /\ UNCHANGED <<branches, row_lock, term, inventory_transactions,
                   approval_requests, cashier_log, owner, sale_status, failures,
                   cashier, calc,
                   firm_master, accessory_packages, pdf_challans>>

\* the financed sale of BR1 is finalized and the back office then works on its record
NextBackOffice ==
    \/ \E t \in Terminals, s \in DaybookSales : BeginDirect(t, s)
    \/ \E t \in Terminals : GetNextDcNumber(t)
    \/ \E t \in Terminals : CreateSalesRecord(t)
    \/ \E t \in Terminals : LinkBookingReceipts(t)
    \/ \E t \in Terminals : LogSale(t)
    \/ \E record_id \in DOMAIN sales_records :
          \E new_initial_dd \in DdAmounts, new_shortfall_rec \in DdAmounts :
             UpdateDdPayment(record_id, new_initial_dd, new_shortfall_rec)
    \/ \E record_id \in DOMAIN sales_records :
          \E updates \in EditorChanges : UpdateInsuranceTrStatus(record_id, updates)

SpecBackOffice == Init /\ [][NextBackOffice]_vars

PaymentColumns == {"Payment_DD_Received", "shortfall_received", "Payment_Shortfall", "has_dues"}

====
